---- MODULE Spec2Model ----
(***************************************************************************)
(* Model of the sendly-rust SDK: the request executor of src/src/client.rs *)
(* (request_with_retry, handle_response), the error helpers of             *)
(* src/src/error.rs and the webhook verifier of src/src/webhooks.rs.       *)
(***************************************************************************)
EXTENDS Integers, Sequences, FiniteSets, TLC

(***************************************************************************)
(* Option<T>.                                                              *)
(***************************************************************************)
None == [some |-> FALSE]
Some(v) == [some |-> TRUE, v |-> v]

(***************************************************************************)
(* Unsigned integers wider than the checker's own: a natural number is the *)
(* set of the positions of the 1 bits of its binary form (5 = {0, 2}).     *)
(* A u64 is such a set with every position below U64Bits.                  *)
(***************************************************************************)
U64Bits == 64

Zero == {}

RECURSIVE AddPow2(_, _)
AddPow2(a, e) == IF e \in a THEN AddPow2(a \ {e}, e + 1) ELSE a \cup {e}

RECURSIVE AddBits(_, _)
AddBits(a, b) ==
    IF b = {} THEN a
    ELSE LET e == CHOOSE x \in b : \A y \in b : x <= y
         IN  AddBits(AddPow2(a, e), b \ {e})

ShiftLeft(a, k) == {e + k : e \in a}

FitsU64(a) == \A e \in a : e < U64Bits

\* The bits of a small number n (used for decimal digits).
RECURSIVE BitsOf(_)
BitsOf(n) == IF n = 0 THEN {} ELSE AddPow2(BitsOf(n - 1), 0)

(***************************************************************************)
(* Result<T, Error> and the variants of Error (src/src/error.rs).          *)
(***************************************************************************)
Ok(v) == [ok |-> TRUE, value |-> v]
Err(e) == [ok |-> FALSE, err |-> e]

Authentication(m) == [kind |-> "Authentication", message |-> m]
RateLimit(m, ra) == [kind |-> "RateLimit", message |-> m, retry_after |-> ra]
InsufficientCredits(m) == [kind |-> "InsufficientCredits", message |-> m]
Validation(m) == [kind |-> "Validation", message |-> m]
NotFound(m) == [kind |-> "NotFound", message |-> m]
Network(m) == [kind |-> "Network", message |-> m]
Timeout == [kind |-> "Timeout"]
Json(e) == [kind |-> "Json", source |-> e]
Http(e) == [kind |-> "Http", source |-> e]
Api(m, sc, c) == [kind |-> "Api", message |-> m, status_code |-> sc, code |-> c]

\* Error::is_retryable
is_retryable_never_rate_limit(e) == e.kind \in {"Network", "Timeout"}
is_retryable(e) == e.kind \in {"RateLimit", "Network", "Timeout"}

\* Error::retry_after
retry_after(e) == IF e.kind = "RateLimit" THEN e.retry_after ELSE None

(***************************************************************************)
(* The error envelope of a failure response: ApiErrorResponse, and the     *)
(* JSON body it is deserialized from.  A member of the body is absent,     *)
(* null, a string or a value of another JSON type (a number).              *)
(***************************************************************************)
JAbsent == [t |-> "absent", s |-> ""]
JNull == [t |-> "null", s |-> ""]
JStr(s) == [t |-> "str", s |-> s]
JNum == [t |-> "num", s |-> ""]

ApiErrorResponse(m, e, c) == [message |-> m, error |-> e, code |-> c]

\* serde's Option<String>: a missing member and null are None, a string is
\* Some, any other JSON type is a type error.
OptionStringOk(j) == j.t \in {"absent", "null", "str"}
OptionString(j) == IF j.t = "str" THEN Some(j.s) ELSE None

\* response.json::<ApiErrorResponse>(): Some(envelope), or None when the body
\* is no JSON object or a member has the wrong type.
FromJson(body) ==
    IF body.json /\ OptionStringOk(body.message) /\ OptionStringOk(body.error)
       /\ OptionStringOk(body.code)
    THEN Some(ApiErrorResponse(OptionString(body.message), OptionString(body.error),
                               OptionString(body.code)))
    ELSE None

UnknownError == "Unknown error"

\* ApiErrorResponse::message
message_prefers_error(r) ==
    IF r.error.some THEN r.error.v
    ELSE IF r.message.some THEN r.message.v
    ELSE UnknownError
message(r) ==
    IF r.message.some THEN r.message.v
    ELSE IF r.error.some THEN r.error.v
    ELSE UnknownError

(***************************************************************************)
(* The Retry-After header.  A header value is a sequence of characters;    *)
(* "OBS" stands for a byte outside visible ASCII, which HeaderValue::to_str *)
(* refuses.                                                                *)
(***************************************************************************)
Digits == <<"0", "1", "2", "3", "4", "5", "6", "7", "8", "9">>

IsDigit(c) == \E i \in 1..Len(Digits) : Digits[i] = c
DigitVal(c) == (CHOOSE i \in 1..Len(Digits) : Digits[i] = c) - 1

\* HeaderValue::to_str().ok()
to_str(v) == IF \E i \in 1..Len(v) : v[i] = "OBS" THEN None ELSE Some(v)

\* x * 10 = x * 8 + x * 2
Mul10(a) == AddBits(ShiftLeft(a, 3), ShiftLeft(a, 1))

\* The digit loop of u64::from_str: result = result * 10 + digit, each step
\* checked for overflow; None on a character that is no digit or on overflow.
RECURSIVE ParseDigits(_, _)
ParseDigits(s, acc) ==
    IF s = <<>> THEN Some(acc)
    ELSE IF ~IsDigit(Head(s)) THEN None
    ELSE LET mul == Mul10(acc)
             sum == AddBits(mul, BitsOf(DigitVal(Head(s))))
         IN  IF FitsU64(mul) /\ FitsU64(sum) THEN ParseDigits(Tail(s), sum) ELSE None

\* str::parse::<u64>().ok(): an empty string and a lone sign are errors, one
\* leading '+' is accepted, '-' is not a digit of an unsigned type.
ParseU64_as_u32(s) ==
    LET r == IF s = <<>> THEN None
             ELSE IF Len(s) = 1 /\ s[1] \in {"+", "-"} THEN None
             ELSE IF s[1] = "+" THEN ParseDigits(Tail(s), Zero)
             ELSE ParseDigits(s, Zero)
    IN  IF r.some /\ \A e \in r.v : e < 32 THEN r ELSE None
ParseU64(s) ==
    IF s = <<>> THEN None
    ELSE IF Len(s) = 1 /\ s[1] \in {"+", "-"} THEN None
    ELSE IF s[1] = "+" THEN ParseDigits(Tail(s), Zero)
    ELSE ParseDigits(s, Zero)

\* response.headers().get("Retry-After").and_then(to_str).and_then(parse)
RetryAfterHeader(headers) ==
    LET value == headers.retry_after
        text == IF value.some THEN to_str(value.v) ELSE None
    IN  IF text.some THEN ParseU64(text.v) ELSE None

(***************************************************************************)
(* Sendly::handle_response.                                                *)
(***************************************************************************)
UNAUTHORIZED == 401
PAYMENT_REQUIRED == 402
NOT_FOUND == 404
TOO_MANY_REQUESTS == 429
BAD_REQUEST == 400
UNPROCESSABLE_ENTITY == 422

\* StatusCode::is_success
is_success(status) == 200 <= status /\ status < 300

\* response.json().await.unwrap_or(ApiErrorResponse {None, None, None})
ErrorBody(body) ==
    LET parsed == FromJson(body)
    IN  IF parsed.some THEN parsed.v ELSE ApiErrorResponse(None, None, None)

\* The `match status` of handle_response.
StatusError_404_as_api(status, msg, ra, code) ==
    CASE status = UNAUTHORIZED -> Authentication(msg)
      [] status = PAYMENT_REQUIRED -> InsufficientCredits(msg)
      [] status = TOO_MANY_REQUESTS -> RateLimit(msg, ra)
      [] status \in {BAD_REQUEST, UNPROCESSABLE_ENTITY} -> Validation(msg)
      [] OTHER -> Api(msg, status, code)
StatusError(status, msg, ra, code) ==
    CASE status = UNAUTHORIZED -> Authentication(msg)
      [] status = PAYMENT_REQUIRED -> InsufficientCredits(msg)
      [] status = NOT_FOUND -> NotFound(msg)
      [] status = TOO_MANY_REQUESTS -> RateLimit(msg, ra)
      [] status \in {BAD_REQUEST, UNPROCESSABLE_ENTITY} -> Validation(msg)
      [] OTHER -> Api(msg, status, code)

handle_response(response) ==
    IF is_success(response.status) THEN Ok(response)
    ELSE LET ra == RetryAfterHeader(response.headers)
             error_body == ErrorBody(response.body)
         IN  Err(StatusError(response.status, message(error_body), ra, error_body.code))

(***************************************************************************)
(* Sendly::request_with_retry: one logical request.                        *)
(*                                                                         *)
(* The transport (request_fn) answers each attempt with Ok(response) or    *)
(* with a reqwest::Error, of which the loop reads is_timeout(),            *)
(* is_connect() and to_string().                                           *)
(***************************************************************************)
VARIABLES
    api_key,          \* Sendly.api_key
    config,           \* Sendly.config: SendlyConfig
    overflow_checks,  \* the build profile: TRUE panics on integer overflow, FALSE wraps
    pc,               \* where the call is: iter, sleeping, slept, waiting, done, panicked
    attempt,          \* the loop variable of `for attempt in 0..=max_retries`
    last_error,       \* Option<Error>
    delay,            \* the Duration the call is sleeping for, in seconds
    result,           \* Option<Result<Response>>: what the call returned
    requests_sent,    \* the number of requests handed to the transport
    slept,            \* the seconds slept so far, in total
    log,              \* the sends, answers and sleeps of the call, in order
    outcome,          \* the transport's answer to the latest attempt
    prev_error,       \* last_error as it was before the latest attempt
    only_timeouts     \* every attempt so far was answered by a timeout

retry_vars == <<api_key, config, overflow_checks, pc, attempt, last_error, delay,
                result, requests_sent, slept, log, outcome, prev_error, only_timeouts>>

DEFAULT_BASE_URL == "https://sendly.live/api/v1"
DefaultTimeoutSecs == 30
DefaultMaxRetries == 3

\* Largest small max_retries tried; the model also tries U64Bits and U64Bits + 1,
\* the values on both sides of the width of the delay computation.
MaxRetries == 3

MaxRetriesChoices == (0..MaxRetries) \cup {DefaultMaxRetries, U64Bits, U64Bits + 1}

SendlyConfig(max_retries) ==
    [base_url |-> DEFAULT_BASE_URL, timeout |-> DefaultTimeoutSecs,
     max_retries |-> max_retries]

\* reqwest::Error as the loop sees it.
TransportErrors ==
    { [is_timeout |-> TRUE,  is_connect |-> FALSE, text |-> "operation timed out"],
      [is_timeout |-> TRUE,  is_connect |-> TRUE,  text |-> "connect timed out"],
      [is_timeout |-> FALSE, is_connect |-> TRUE,  text |-> "connection refused"],
      [is_timeout |-> FALSE, is_connect |-> TRUE,  text |-> "dns error"],
      [is_timeout |-> FALSE, is_connect |-> FALSE, text |-> "too many redirects"] }

\* 2u64.pow(exp): the value, and whether the multiplication overflowed 64 bits
\* (the result then wraps to 2^exp mod 2^64 = 0).
Pow2U64(exp) == [overflow |-> exp >= U64Bits,
                 value |-> IF exp < U64Bits THEN {exp} ELSE Zero]

\* Whether `0..=max_retries` yields a value after `attempt`.
HasNextAttempt(a, max_retries) == a < max_retries

\* The `match request_fn().await` of the loop body: whether the call returns,
\* what it returns, and last_error afterwards.
MatchOutcome_retries_server_errors(o, le) ==
    IF o.ok /\ o.response.status < 500
    THEN [returns |-> TRUE, value |-> handle_response(o.response), last_error |-> le]
    ELSE IF o.ok
    THEN [returns |-> FALSE, value |-> None, last_error |-> Some(Network("server error"))]
    ELSE IF o.error.is_timeout
    THEN [returns |-> FALSE, value |-> None, last_error |-> Some(Timeout)]
    ELSE IF o.error.is_connect
    THEN [returns |-> FALSE, value |-> None,
          last_error |-> Some(Network(o.error.text))]
    ELSE [returns |-> TRUE, value |-> Err(Http(o.error)), last_error |-> le]
MatchOutcome_prefers_recorded(o, le) ==
    IF o.ok
    THEN [returns |-> TRUE, value |-> handle_response(o.response), last_error |-> le]
    ELSE IF o.error.is_timeout
    THEN [returns |-> FALSE, value |-> None, last_error |-> Some(Timeout)]
    ELSE IF o.error.is_connect
    THEN [returns |-> FALSE, value |-> None,
          last_error |-> Some(Network(o.error.text))]
    ELSE [returns |-> TRUE,
          value |-> IF le.some THEN Err(le.v) ELSE Err(Http(o.error)),
          last_error |-> le]
MatchOutcome_keeps_first_error(o, le) ==
    IF o.ok
    THEN [returns |-> TRUE, value |-> handle_response(o.response), last_error |-> le]
    ELSE IF le.some /\ (o.error.is_timeout \/ o.error.is_connect)
    THEN [returns |-> FALSE, value |-> None, last_error |-> le]
    ELSE IF o.error.is_timeout
    THEN [returns |-> FALSE, value |-> None, last_error |-> Some(Timeout)]
    ELSE IF o.error.is_connect
    THEN [returns |-> FALSE, value |-> None,
          last_error |-> Some(Network(o.error.text))]
    ELSE [returns |-> TRUE, value |-> Err(Http(o.error)), last_error |-> le]
MatchOutcome_forgets_error(o, le) ==
    IF o.ok
    THEN [returns |-> TRUE, value |-> handle_response(o.response), last_error |-> le]
    ELSE IF o.error.is_timeout \/ o.error.is_connect
    THEN [returns |-> FALSE, value |-> None, last_error |-> None]
    ELSE [returns |-> TRUE, value |-> Err(Http(o.error)), last_error |-> le]
MatchOutcome(o, le) ==
    IF o.ok
    THEN [returns |-> TRUE, value |-> handle_response(o.response), last_error |-> le]
    ELSE IF o.error.is_timeout
    THEN [returns |-> FALSE, value |-> None, last_error |-> Some(Timeout)]
    ELSE IF o.error.is_connect
    THEN [returns |-> FALSE, value |-> None,
          last_error |-> Some(Network(o.error.text))]
    ELSE [returns |-> TRUE, value |-> Err(Http(o.error)), last_error |-> le]

RequestFailedAfterRetries == "Request failed after retries"

\* Err(last_error.unwrap_or(Error::Network { .. })) after the loop.
AfterLoop(le) == Err(IF le.some THEN le.v ELSE Network(RequestFailedAfterRetries))

(***************************************************************************)
(* What the server may answer.                                             *)
(***************************************************************************)
NoBody == [json |-> FALSE, message |-> JAbsent, error |-> JAbsent, code |-> JAbsent]
JsonBody(m, e, c) == [json |-> TRUE, message |-> m, error |-> e, code |-> c]

Response(status, ra, body) ==
    [status |-> status, headers |-> [retry_after |-> ra], body |-> body]

\* The answers the retry loop is run against.
RetryResponses ==
    { Response(s, h, b) :
        s \in {200, TOO_MANY_REQUESTS, 500, 503},
        h \in {None, Some(<<"6", "0">>)},
        b \in {NoBody, JsonBody(JAbsent, JStr("Internal server error"), JAbsent)} }

Outcomes ==
    { [ok |-> TRUE, response |-> r, error |-> None] : r \in RetryResponses }
    \cup { [ok |-> FALSE, response |-> None, error |-> e] : e \in TransportErrors }

Event(ev, n, secs) == [ev |-> ev, n |-> n, secs |-> secs]

RetryInit ==
    /\ api_key = "sk_test_v1_key"
    /\ config \in {SendlyConfig(n) : n \in MaxRetriesChoices}
    /\ overflow_checks \in BOOLEAN
    /\ pc = "iter"
    /\ attempt = 0
    /\ last_error = None
    /\ delay = Zero
    /\ result = None
    /\ requests_sent = 0
    /\ slept = Zero
    /\ log = <<>>
    /\ outcome = None
    /\ prev_error = None
    /\ only_timeouts = TRUE

\* `if attempt > 0 { let delay = ...; tokio::time::sleep(delay)`: the call starts
\* to sleep, or panics when the power overflows in a build that checks overflow.
BackoffBegin ==
    /\ pc = "iter"
    /\ attempt > 0
    /\ LET p == Pow2U64(attempt - 1)
       IN  IF p.overflow /\ overflow_checks
           THEN /\ pc' = "panicked"
                /\ UNCHANGED <<delay, log>>
           ELSE /\ pc' = "sleeping"
                /\ delay' = p.value
                /\ log' = Append(log, Event("sleep", attempt, p.value))
    /\ UNCHANGED <<api_key, config, overflow_checks, attempt, last_error, result,
                   requests_sent, slept, outcome, prev_error, only_timeouts>>

\* `.await` of the sleep: the timer fires.
BackoffEnd ==
    /\ pc = "sleeping"
    /\ pc' = "slept"
    /\ slept' = AddBits(slept, delay)
    /\ log' = Append(log, Event("wake", attempt, delay))
    /\ UNCHANGED <<api_key, config, overflow_checks, attempt, last_error, delay,
                   result, requests_sent, outcome, prev_error, only_timeouts>>

\* `request_fn()`: the attempt's request is handed to the transport.
SendRequest ==
    /\ \/ pc = "iter" /\ attempt = 0
       \/ pc = "slept"
    /\ pc' = "waiting"
    /\ requests_sent' = requests_sent + 1
    /\ log' = Append(log, Event("send", attempt, Zero))
    /\ UNCHANGED <<api_key, config, overflow_checks, attempt, last_error, delay,
                   result, slept, outcome, prev_error, only_timeouts>>

\* `.await` of the request: the transport answers o, and the loop body's match
\* returns, goes on to the next attempt, or leaves the loop.
RequestCompletes(o) ==
    /\ pc = "waiting"
    /\ outcome' = Some(o)
    /\ prev_error' = last_error
    /\ only_timeouts' = (only_timeouts /\ ~o.ok /\ o.error.is_timeout)
    /\ log' = Append(log, Event(IF o.ok THEN "response" ELSE "failure", attempt, Zero))
    /\ LET m == MatchOutcome(o, last_error)
       IN  /\ last_error' = m.last_error
           /\ IF m.returns
              THEN /\ result' = Some(m.value)
                   /\ pc' = "done"
                   /\ UNCHANGED attempt
              ELSE IF HasNextAttempt(attempt, config.max_retries)
              THEN /\ attempt' = attempt + 1
                   /\ pc' = "iter"
                   /\ UNCHANGED result
              ELSE /\ result' = Some(AfterLoop(m.last_error))
                   /\ pc' = "done"
                   /\ UNCHANGED attempt
    /\ UNCHANGED <<api_key, config, overflow_checks, delay, requests_sent, slept>>

(***************************************************************************)
(* The errors a caller holds, and what it asks of them: handle_response    *)
(* applied to a response, Error::is_retryable and Error::retry_after       *)
(* applied to the error.                                                   *)
(***************************************************************************)
VARIABLES
    e_pc,           \* start, held
    e_response,     \* Option<Response>: the response handle_response is given
    e_result,       \* Option<Result<Response>>: what handle_response returned
    e_error,        \* Option<Error>: the error the caller holds
    e_retryable,    \* Option<bool>: what is_retryable() answered
    e_retry_after   \* Option<Option<u64>>: what retry_after() answered

err_vars == <<e_pc, e_response, e_result, e_error, e_retryable, e_retry_after>>

\* Longest run of 9s tried as a Retry-After value.
MaxNines == 3

RECURSIVE Nines(_)
Nines(n) == IF n = 0 THEN <<>> ELSE <<"9">> \o Nines(n - 1)

\* 2^64 - 1 and 2^64 in decimal.
U64MaxDecimal == <<"1", "8", "4", "4", "6", "7", "4", "4", "0", "7", "3", "7", "0", "9",
                   "5", "5", "1", "6", "1", "5">>
U64MaxPlusOneDecimal == <<"1", "8", "4", "4", "6", "7", "4", "4", "0", "7", "3", "7", "0",
                          "9", "5", "5", "1", "6", "1", "6">>

HeaderValues ==
    { <<>>, <<"0">>, <<"6", "0">>, <<"0", "6", "0">>, <<"+", "5">>, <<"-", "1">>,
      <<"+">>, <<"6", "a">>, <<"1", ".", "5">>, <<"6", "OBS">>,
      U64MaxDecimal, U64MaxPlusOneDecimal }
    \cup { Nines(n) : n \in 1..MaxNines }

Statuses ==
    { 200, 201, 204, 299, 300, 304, BAD_REQUEST, UNAUTHORIZED, PAYMENT_REQUIRED, 403,
      NOT_FOUND, 409, UNPROCESSABLE_ENTITY, TOO_MANY_REQUESTS, 500, 502, 503 }

Bodies ==
    { NoBody }
    \cup { JsonBody(m, e, c) :
             m \in {JAbsent, JNull, JStr("Rate limit exceeded"), JNum},
             e \in {JAbsent, JNull, JStr("Too many requests"), JNum},
             c \in {JAbsent, JStr("SERVICE_UNAVAILABLE"), JNum} }

AllResponses ==
    { Response(s, h, b) :
        s \in Statuses,
        h \in {None} \cup {Some(v) : v \in HeaderValues},
        b \in Bodies }

\* Errors the library builds without a response: the retry loop's, the
\* pre-flight checks' and the decoding errors of the resource methods.
LocalErrors ==
    { Timeout, Network("connection refused"), Network(RequestFailedAfterRetries),
      Validation("Message text is required"), Json("expected value") }
    \cup { Http(e) : e \in TransportErrors }

ErrIdle ==
    /\ e_pc = "idle"
    /\ e_response = None
    /\ e_result = None
    /\ e_error = None
    /\ e_retryable = None
    /\ e_retry_after = None

ErrInit ==
    /\ e_pc = "start"
    /\ e_result = None
    /\ e_retryable = None
    /\ e_retry_after = None
    /\ \/ e_response \in {Some(r) : r \in AllResponses} /\ e_error = None
       \/ e_response = None /\ e_error \in {Some(e) : e \in LocalErrors}

\* self.handle_response(response).await
HandleResponse ==
    /\ e_pc = "start"
    /\ e_response.some
    /\ LET r == handle_response(e_response.v)
       IN  /\ e_result' = Some(r)
           /\ e_error' = IF r.ok THEN None ELSE Some(r.err)
    /\ e_pc' = "held"
    /\ UNCHANGED <<e_response, e_retryable, e_retry_after>>

\* An error built without a response reaches the caller.
ReturnLocalError ==
    /\ e_pc = "start"
    /\ ~e_response.some
    /\ e_pc' = "held"
    /\ e_result' = Some(Err(e_error.v))
    /\ UNCHANGED <<e_response, e_error, e_retryable, e_retry_after>>

\* error.is_retryable()
IsRetryable ==
    /\ e_pc = "held"
    /\ e_error.some
    /\ ~e_retryable.some
    /\ e_retryable' = Some(is_retryable(e_error.v))
    /\ UNCHANGED <<e_pc, e_response, e_result, e_error, e_retry_after>>

\* error.retry_after()
RetryAfter ==
    /\ e_pc = "held"
    /\ e_error.some
    /\ ~e_retry_after.some
    /\ e_retry_after' = Some(retry_after(e_error.v))
    /\ UNCHANGED <<e_pc, e_response, e_result, e_error, e_retryable>>

(***************************************************************************)
(* webhooks.rs.  A &str is the sequence of its bytes.                      *)
(***************************************************************************)
\* "sha256="
SHA256_PREFIX ==
    <<115, 104, 97, 50, 53, 54, 61>>
\* {"id":"
JSON_ID ==
    <<123, 34, 105, 100, 34, 58, 34>>
\* ","type":"
JSON_TYPE ==
    <<34, 44, 34, 116, 121, 112, 101, 34, 58, 34>>
\* the data object, then the created_at key
JSON_DATA ==
    <<34, 44, 34, 100, 97, 116, 97, 34, 58, 123, 34, 109, 101, 115, 115, 97, 103, 101,
      95, 105, 100, 34, 58, 34, 109, 49, 34, 44, 34, 115, 116, 97, 116, 117, 115,
      34, 58, 34, 115, 101, 110, 116, 34, 44, 34, 116, 111, 34, 58, 34, 43, 49, 53,
      53, 53, 49, 50, 51, 52, 53, 54, 55, 34, 44, 34, 102, 114, 111, 109, 34, 58,
      34, 83, 34, 44, 34, 115, 101, 103, 109, 101, 110, 116, 115, 34, 58, 49, 44,
      34, 99, 114, 101, 100, 105, 116, 115, 95, 117, 115, 101, 100, 34, 58, 49, 125,
      44, 34, 99, 114, 101, 97, 116, 101, 100, 95, 97, 116, 34, 58, 34>>
\* "}
JSON_END ==
    <<34, 125>>
\* "invalid"
TextInvalid ==
    <<105, 110, 118, 97, 108, 105, 100>>
\* "not json"
TextNotJson ==
    <<110, 111, 116, 32, 106, 115, 111, 110>>
\* "{}"
TextEmptyObject ==
    <<123, 125>>
\* "whsec_1"
Secret1 ==
    <<119, 104, 115, 101, 99, 95, 49>>
\* "whsec_2"
Secret2 ==
    <<119, 104, 115, 101, 99, 95, 50>>
\* "evt_1"
EventId ==
    <<101, 118, 116, 95, 49>>
\* "2024-01-01T00:00:00Z"
CreatedAt ==
    <<50, 48, 50, 52, 45, 48, 49, 45, 48, 49, 84, 48, 48, 58, 48, 48, 58, 48, 48, 90>>
\* "2024-01-01"
DEFAULT_API_VERSION ==
    <<50, 48, 50, 52, 45, 48, 49, 45, 48, 49>>
\* "message.queued"
MessageQueued ==
    <<109, 101, 115, 115, 97, 103, 101, 46, 113, 117, 101, 117, 101, 100>>
\* "message.sent"
MessageSent ==
    <<109, 101, 115, 115, 97, 103, 101, 46, 115, 101, 110, 116>>
\* "message.delivered"
MessageDelivered ==
    <<109, 101, 115, 115, 97, 103, 101, 46, 100, 101, 108, 105, 118, 101, 114, 101,
      100>>
\* "message.failed"
MessageFailed ==
    <<109, 101, 115, 115, 97, 103, 101, 46, 102, 97, 105, 108, 101, 100>>
\* "message.undelivered"
MessageUndelivered ==
    <<109, 101, 115, 115, 97, 103, 101, 46, 117, 110, 100, 101, 108, 105, 118, 101, 114,
      101, 100>>
\* "message.unknown"
TypeUnknown ==
    <<109, 101, 115, 115, 97, 103, 101, 46, 117, 110, 107, 110, 111, 119, 110>>

InvalidSignature == [kind |-> "InvalidSignature"]
ParseError(m) == [kind |-> "ParseError", message |-> m]
InvalidStructure == [kind |-> "InvalidStructure"]

\* WebhookEventType: the five names serde accepts for "type".
WebhookEventType ==
    {MessageQueued, MessageSent, MessageDelivered, MessageFailed, MessageUndelivered}

WebhookEvent(id, event_type, created_at, api_version) ==
    [id |-> id, event_type |-> event_type, created_at |-> created_at,
     api_version |-> api_version]

\* Bit k of a byte, and the two u8 operators of constant_time_compare.
Bit(x, k) == (x \div (2 ^ k)) % 2

XorByte_low_bits(x, y) ==
    LET b(k) == (Bit(x, k) + Bit(y, k)) % 2
    IN  b(0) + 2 * b(1) + 4 * b(2) + 8 * b(3) + 16 * b(4) + 32 * b(5) + 64 * b(6)

XorByte(x, y) ==
    LET b(k) == (Bit(x, k) + Bit(y, k)) % 2
    IN  b(0) + 2 * b(1) + 4 * b(2) + 8 * b(3)
          + 16 * b(4) + 32 * b(5) + 64 * b(6) + 128 * b(7)

OrByte(x, y) ==
    LET b(k) == IF Bit(x, k) + Bit(y, k) > 0 THEN 1 ELSE 0
    IN  b(0) + 2 * b(1) + 4 * b(2) + 8 * b(3)
          + 16 * b(4) + 32 * b(5) + 64 * b(6) + 128 * b(7)

\* The loop of constant_time_compare from pair i on: result |= x ^ y.
RECURSIVE CompareLoop(_, _, _, _)
CompareLoop(a, b, i, acc) ==
    IF i > Len(a) THEN acc
    ELSE LET next == OrByte(acc, XorByte(a[i], b[i]))
         IN  IF next = 0 THEN CompareLoop(a, b, i + 1, 0)
             ELSE CompareLoop(a, b, i + 1, next)

constant_time_compare(a, b) ==
    IF Len(a) # Len(b) THEN FALSE ELSE CompareLoop(a, b, 1, 0) = 0

\* hex::encode: two lower-case hexadecimal digits per byte.
HexDigit(n) == IF n < 10 THEN 48 + n ELSE 87 + n

hex_encode(bytes) ==
    [i \in 1..(2 * Len(bytes)) |->
        IF i % 2 = 1 THEN HexDigit(bytes[(i + 1) \div 2] \div 16)
        ELSE HexDigit(bytes[i \div 2] % 16)]

\* HMAC-SHA256 is the hmac and sha2 crates' work.  What the verifier uses of
\* it is that it is a function of key and data giving 32 bytes; a keyed
\* checksum of that shape stands for it.
DigestLen == 32

RECURSIVE Checksum(_, _, _)
Checksum(bytes, lo, hi) ==
    IF lo > hi THEN 0
    ELSE IF lo = hi THEN ((bytes[lo] + 1) * ((lo % 251) + 1)) % 65521
    ELSE LET mid == (lo + hi) \div 2
         IN  (Checksum(bytes, lo, mid) + Checksum(bytes, mid + 1, hi))
                 % 65521

HmacSha256(key, data) ==
    LET k == Checksum(key, 1, Len(key))
        d == Checksum(data, 1, Len(data))
        keyed == (k * 257 + d * 31 + (k % 256) * (d % 256) + Len(data))
                     % 65521
    IN  [i \in 1..DigestLen |->
            IF i % 2 = 1 THEN ((keyed % 256) * i + i) % 256
            ELSE ((keyed \div 256) * (i + 1) + i) % 256]

generate_signature_without_prefix(payload, secret) ==
    hex_encode(HmacSha256(secret, payload))

\* format!("sha256={}", hex::encode(mac.finalize().into_bytes()))
generate_signature(payload, secret) ==
    SHA256_PREFIX \o hex_encode(HmacSha256(secret, payload))

verify_signature(payload, signature, secret) ==
    IF payload = <<>> \/ signature = <<>> \/ secret = <<>> THEN FALSE
    ELSE LET expected == SHA256_PREFIX \o hex_encode(HmacSha256(secret, payload))
         IN  constant_time_compare(signature, expected)

\* A JSON document as serde sees it for WebhookEvent: the members it looks
\* for, each absent or a string, and whether a well-formed data object is
\* there.
JsonDoc(id, type, data, created_at) ==
    [id |-> id, type |-> type, data |-> data, created_at |-> created_at]

EmptyObject == JsonDoc(None, None, FALSE, None)

EventDocs ==
    {JsonDoc(Some(id), Some(type), TRUE, Some(created_at)) :
        id \in {EventId, <<>>},
        type \in {MessageSent, MessageFailed, TypeUnknown},
        created_at \in {CreatedAt, <<>>}}

JsonDocs == {EmptyObject} \cup EventDocs

\* The text of a document.
ToJson(doc) ==
    IF doc = EmptyObject THEN TextEmptyObject
    ELSE JSON_ID \o doc.id.v \o JSON_TYPE \o doc.type.v
           \o JSON_DATA \o doc.created_at.v \o JSON_END

\* The derived Deserialize of WebhookEvent: id, type, data and created_at are
\* required, type must be one of the five names, api_version has a default.
Deserialize(doc) ==
    IF ~doc.id.some THEN Err("missing field id")
    ELSE IF ~doc.type.some THEN Err("missing field type")
    ELSE IF doc.type.v \notin WebhookEventType THEN Err("unknown variant")
    ELSE IF ~doc.data THEN Err("missing field data")
    ELSE IF ~doc.created_at.some THEN Err("missing field created_at")
    ELSE Ok(WebhookEvent(doc.id.v, doc.type.v, doc.created_at.v,
                         DEFAULT_API_VERSION))

\* serde_json::from_str: the text is read back into the document it is the
\* text of; a text of no document is a syntax error.
from_str(text) ==
    IF \E doc \in JsonDocs : ToJson(doc) = text
    THEN Deserialize(CHOOSE doc \in JsonDocs : ToJson(doc) = text)
    ELSE Err("expected value")

\* After verify_signature: the early return of parse_event, or on to the
\* deserializer.
AfterVerify_no_early_return(valid) ==
    [returns |-> FALSE, value |-> None]

AfterVerify(valid) ==
    IF ~valid THEN [returns |-> TRUE, value |-> Some(Err(InvalidSignature))]
    ELSE [returns |-> FALSE, value |-> None]

\* After from_str: map_err and the ? operator.
AfterParse(parsed) ==
    IF ~parsed.ok
    THEN [returns |-> TRUE, value |-> Some(Err(ParseError(parsed.err)))]
    ELSE [returns |-> FALSE, value |-> None]

Validate_accepts_empty(event) == Ok(event)

\* The basic validation and the final Ok(event).
Validate(event) ==
    IF event.id = <<>> \/ event.created_at = <<>> THEN Err(InvalidStructure)
    ELSE Ok(event)

VARIABLES
    w_pc,          \* where parse_event is: "idle", "start", "verified",
                   \* "parsed", "returned"
    w_payload,     \* the raw request body
    w_signature,   \* the X-Sendly-Signature header value
    w_secret,      \* the webhook secret
    w_valid,       \* what verify_signature answered, once asked
    w_event,       \* the deserialized event, once there is one
    w_result,      \* what parse_event returned
    w_ops          \* the calls parse_event made, in order

wh_vars ==
    <<w_pc, w_payload, w_signature, w_secret, w_valid, w_event, w_result, w_ops>>

Payloads == {<<>>, TextNotJson} \cup {ToJson(doc) : doc \in JsonDocs}

Secrets == {<<>>, Secret1, Secret2}

\* A signature with its byte at position i replaced.
WithByte(s, i, byte) == [s EXCEPT ![i] = byte]

\* The signatures tried against a payload: none, a word, the right one under
\* each secret, and the right one damaged at its first or last byte or cut
\* short by one.
SignaturesFor(payload) ==
    LET good == generate_signature(payload, Secret1)
    IN  {<<>>, TextInvalid, good, generate_signature(payload, Secret2),
         WithByte(good, 1, 83),
         WithByte(good, Len(good), IF good[Len(good)] = 48 THEN 49 ELSE 48),
         SubSeq(good, 1, Len(good) - 1)}

WhIdle ==
    /\ w_pc = "idle"
    /\ w_payload = <<>>
    /\ w_signature = <<>>
    /\ w_secret = <<>>
    /\ w_valid = None
    /\ w_event = None
    /\ w_result = None
    /\ w_ops = <<>>

\* Webhooks::parse_event(payload, signature, secret) is called.
WhInit ==
    /\ w_pc = "start"
    /\ w_payload \in Payloads
    /\ w_signature \in SignaturesFor(w_payload)
    /\ w_secret \in Secrets
    /\ w_valid = None
    /\ w_event = None
    /\ w_result = None
    /\ w_ops = <<>>

\* if !Self::verify_signature(..) { return Err(InvalidSignature) }
VerifyStep ==
    /\ w_pc = "start"
    /\ LET valid == verify_signature(w_payload, w_signature, w_secret)
           after == AfterVerify(valid)
       IN  /\ w_valid' = Some(valid)
           /\ w_ops' = Append(w_ops, "verify_signature")
           /\ w_pc' = IF after.returns THEN "returned" ELSE "verified"
           /\ w_result' = after.value
    /\ UNCHANGED <<w_payload, w_signature, w_secret, w_event>>

\* serde_json::from_str(payload).map_err(..)?
DeserializeStep ==
    /\ w_pc = "verified"
    /\ LET parsed == from_str(w_payload)
           after == AfterParse(parsed)
       IN  /\ w_ops' = Append(w_ops, "from_str")
           /\ w_pc' = IF after.returns THEN "returned" ELSE "parsed"
           /\ w_result' = after.value
           /\ w_event' = IF parsed.ok THEN Some(parsed.value) ELSE None
    /\ UNCHANGED <<w_payload, w_signature, w_secret, w_valid>>

\* the id / created_at check and Ok(event)
ValidateStep ==
    /\ w_pc = "parsed"
    /\ w_ops' = Append(w_ops, "validate")
    /\ w_pc' = "returned"
    /\ w_result' = Some(Validate(w_event.v))
    /\ UNCHANGED <<w_payload, w_signature, w_secret, w_valid, w_event>>

\* parse_event as a function of its three arguments.
parse_event(payload, signature, secret) ==
    LET checked == AfterVerify(verify_signature(payload, signature, secret))
    IN  IF checked.returns THEN checked.value.v
        ELSE LET parsed == from_str(payload)
                 read == AfterParse(parsed)
             IN  IF read.returns THEN read.value.v
                 ELSE Validate(parsed.value)

(***************************************************************************)
(* verify_signature and constant_time_compare, statement by statement.     *)
(***************************************************************************)
VARIABLES
    v_pc,          \* "idle", "input", "signed", "mac", "compare", "loop",
                   \* "done"
    v_payload,     \* payload
    v_secret,      \* secret
    v_signature,   \* signature
    v_origin,      \* how the signature came about
    v_expected,    \* expected, once computed
    v_i,           \* the byte pair the loop is at
    v_acc,         \* result, the u8 the loop accumulates into
    v_steps,       \* loop bodies run
    v_macs,        \* HMACs computed by verify_signature
    v_verdict      \* what verify_signature returned

ver_vars ==
    <<v_pc, v_payload, v_secret, v_signature, v_origin, v_expected, v_i, v_acc,
      v_steps, v_macs, v_verdict>>

VerPayloads ==
    {<<>>, TextNotJson,
     ToJson(JsonDoc(Some(EventId), Some(MessageSent), TRUE, Some(CreatedAt)))}

Origin(by, secret, mutated) == [by |-> by, secret |-> secret, mutated |-> mutated]

\* The byte values a byte is changed to: its lowest or its highest bit flipped.
FlipBit(byte, k) ==
    IF Bit(byte, k) = 1 THEN byte - 2 ^ k ELSE byte + 2 ^ k

Mutations(byte) == {FlipBit(byte, 0), FlipBit(byte, 7)}

\* Signatures that generate_signature did not make.
OtherSignatures(payload) ==
    LET good == generate_signature(payload, Secret1)
    IN  {<<>>, TextInvalid, SubSeq(good, 1, Len(good) - 1), good \o <<48>>}

VerIdle ==
    /\ v_pc = "idle"
    /\ v_payload = <<>>
    /\ v_secret = <<>>
    /\ v_signature = <<>>
    /\ v_origin = None
    /\ v_expected = None
    /\ v_i = 0
    /\ v_acc = 0
    /\ v_steps = 0
    /\ v_macs = 0
    /\ v_verdict = None

VerInit ==
    /\ v_pc = "input"
    /\ v_payload \in VerPayloads
    /\ v_secret \in Secrets
    /\ v_signature = <<>>
    /\ v_origin = None
    /\ v_expected = None
    /\ v_i = 0
    /\ v_acc = 0
    /\ v_steps = 0
    /\ v_macs = 0
    /\ v_verdict = None

\* let signature = Webhooks::generate_signature(payload, key)
GenerateSignature(key) ==
    /\ v_pc = "input"
    /\ v_signature' = generate_signature(v_payload, key)
    /\ v_origin' = Some(Origin("generate_signature", key, FALSE))
    /\ v_pc' = "signed"
    /\ UNCHANGED <<v_payload, v_secret, v_expected, v_i, v_acc, v_steps, v_macs,
                   v_verdict>>

\* One byte of a generated signature is changed to another value.
MutateByte(i, byte) ==
    /\ v_pc = "signed"
    /\ v_origin.some
    /\ v_origin.v.by = "generate_signature"
    /\ ~v_origin.v.mutated
    /\ i \in 1..Len(v_signature)
    /\ byte # v_signature[i]
    /\ v_signature' = WithByte(v_signature, i, byte)
    /\ v_origin' = Some(Origin("generate_signature", v_origin.v.secret, TRUE))
    /\ UNCHANGED <<v_pc, v_payload, v_secret, v_expected, v_i, v_acc, v_steps,
                   v_macs, v_verdict>>

\* The caller passes a signature of its own.
SupplySignature(signature) ==
    /\ v_pc = "input"
    /\ v_signature' = signature
    /\ v_origin' = Some(Origin("caller", <<>>, FALSE))
    /\ v_pc' = "signed"
    /\ UNCHANGED <<v_payload, v_secret, v_expected, v_i, v_acc, v_steps, v_macs,
                   v_verdict>>

AnyEmpty_ignores_signature(payload, signature, secret) ==
    payload = <<>> \/ secret = <<>>

\* The guard of verify_signature: any argument empty.
AnyEmpty(payload, signature, secret) ==
    payload = <<>> \/ signature = <<>> \/ secret = <<>>

\* verify_signature is entered: the is_empty() checks.
VerifyBegin ==
    /\ v_pc = "signed"
    /\ IF AnyEmpty(v_payload, v_signature, v_secret)
       THEN v_pc' = "done" /\ v_verdict' = Some(FALSE)
       ELSE v_pc' = "mac" /\ v_verdict' = None
    /\ UNCHANGED <<v_payload, v_secret, v_signature, v_origin, v_expected, v_i,
                   v_acc, v_steps, v_macs>>

\* new_from_slice, update, finalize, format!
VerifyMac ==
    /\ v_pc = "mac"
    /\ v_expected' = Some(SHA256_PREFIX \o hex_encode(HmacSha256(v_secret, v_payload)))
    /\ v_macs' = v_macs + 1
    /\ v_pc' = "compare"
    /\ UNCHANGED <<v_payload, v_secret, v_signature, v_origin, v_i, v_acc,
                   v_steps, v_verdict>>

\* constant_time_compare is entered: the length check, let mut result = 0u8.
CompareBegin ==
    /\ v_pc = "compare"
    /\ IF Len(v_signature) # Len(v_expected.v)
       THEN v_pc' = "done" /\ v_verdict' = Some(FALSE) /\ UNCHANGED <<v_i, v_acc>>
       ELSE v_pc' = "loop" /\ v_i' = 1 /\ v_acc' = 0 /\ UNCHANGED v_verdict
    /\ UNCHANGED <<v_payload, v_secret, v_signature, v_origin, v_expected,
                   v_steps, v_macs>>

LoopContinues_until_difference(i, len, acc) == i <= len /\ acc = 0

\* The for loop over a.bytes().zip(b.bytes()) has a pair left.
LoopContinues(i, len, acc) == i <= len

\* result |= x ^ y
CompareStep ==
    /\ v_pc = "loop"
    /\ LoopContinues(v_i, Len(v_signature), v_acc)
    /\ v_acc' = OrByte(v_acc, XorByte(v_signature[v_i], v_expected.v[v_i]))
    /\ v_i' = v_i + 1
    /\ v_steps' = v_steps + 1
    /\ UNCHANGED <<v_pc, v_payload, v_secret, v_signature, v_origin, v_expected,
                   v_macs, v_verdict>>

\* result == 0
CompareEnd ==
    /\ v_pc = "loop"
    /\ ~LoopContinues(v_i, Len(v_signature), v_acc)
    /\ v_verdict' = Some(v_acc = 0)
    /\ v_pc' = "done"
    /\ UNCHANGED <<v_payload, v_secret, v_signature, v_origin, v_expected, v_i,
                   v_acc, v_steps, v_macs>>

(***************************************************************************)
(* messages.rs and the other resources.  A String is the sequence of its   *)
(* characters, each a Unicode code point.                                  *)
(***************************************************************************)
\* Path segments of the routes, as the format strings spell them.
Seg_messages == <<109, 101, 115, 115, 97, 103, 101, 115>>
Seg_scheduled == <<115, 99, 104, 101, 100, 117, 108, 101, 100>>
Seg_batch == <<98, 97, 116, 99, 104>>
Seg_preview == <<112, 114, 101, 118, 105, 101, 119>>
Seg_schedule == <<115, 99, 104, 101, 100, 117, 108, 101>>
Seg_webhooks == <<119, 101, 98, 104, 111, 111, 107, 115>>
Seg_deliveries == <<100, 101, 108, 105, 118, 101, 114, 105, 101, 115>>
Seg_retry == <<114, 101, 116, 114, 121>>
Seg_test == <<116, 101, 115, 116>>
Seg_rotate_secret == <<114, 111, 116, 97, 116, 101, 45, 115, 101, 99, 114, 101,
    116>>
Seg_contacts == <<99, 111, 110, 116, 97, 99, 116, 115>>
Seg_contact_lists == <<99, 111, 110, 116, 97, 99, 116, 45, 108, 105, 115, 116,
    115>>
Seg_campaigns == <<99, 97, 109, 112, 97, 105, 103, 110, 115>>
Seg_send == <<115, 101, 110, 100>>
Seg_cancel == <<99, 97, 110, 99, 101, 108>>
Seg_clone == <<99, 108, 111, 110, 101>>
Seg_verify == <<118, 101, 114, 105, 102, 121>>
Seg_resend == <<114, 101, 115, 101, 110, 100>>
Seg_check == <<99, 104, 101, 99, 107>>
Seg_account == <<97, 99, 99, 111, 117, 110, 116>>
Seg_keys == <<107, 101, 121, 115>>
Seg_usage == <<117, 115, 97, 103, 101>>

\* Identifiers a caller may pass: "msg_1", "a/b", "a?b", "a#b", "..", "".
IdPlain == <<109, 115, 103, 95, 49>>
IdSlash == <<97, 47, 98>>
IdQuery == <<97, 63, 98>>
IdFragment == <<97, 35, 98>>
IdDotDot == <<46, 46>>

\* Phone numbers: "+15551234567", "15551234567", "+05551234567", "+1",
\* "+1555123456789012" (16 digits), "+15551234567" followed by a line feed,
\* and "+1" followed by the Arabic-Indic digits two to six.
PhoneValid == <<43, 49, 53, 53, 53, 49, 50, 51, 52, 53, 54, 55>>
PhoneNoPlus == <<49, 53, 53, 53, 49, 50, 51, 52, 53, 54, 55>>
PhoneLeadingZero == <<43, 48, 53, 53, 53, 49, 50, 51, 52, 53, 54, 55>>
PhoneTooShort == <<43, 49>>
PhoneTooLong == <<43, 49, 53, 53, 53, 49, 50, 51, 52, 53, 54, 55, 56, 57, 48,
    49, 50>>
PhoneNewline == <<43, 49, 53, 53, 53, 49, 50, 51, 52, 53, 54, 55, 10>>
PhoneArabicIndic == <<43, 49, 1634, 1635, 1636, 1637, 1638>>

\* "2025-01-20T10:00:00Z"
ScheduledAt == <<50, 48, 50, 53, 45, 48, 49, 45, 50, 48, 84, 49, 48, 58, 48, 48,
    58, 48, 48, 90>>
\* "Hello"
TextHello == <<72, 101, 108, 108, 111>>

MAX_TEXT_LENGTH == 1600

\* Bytes a character takes in UTF-8.
Utf8Len(c) == IF c < 128 THEN 1 ELSE IF c < 2048 THEN 2 ELSE IF c < 65536 THEN 3 ELSE 4

\* str::len of the characters lo..hi of s: a count of bytes.
RECURSIVE ByteLen(_, _, _)
ByteLen(s, lo, hi) ==
    IF lo > hi THEN 0
    ELSE IF lo = hi THEN Utf8Len(s[lo])
    ELSE LET mid == (lo + hi) \div 2
         IN  ByteLen(s, lo, mid) + ByteLen(s, mid + 1, hi)

StrLen(s) == ByteLen(s, 1, Len(s))

\* n times the letter a.
Letters(n) == [i \in 1..n |-> 97]

\* \d of the regex crate is the Unicode class Nd, of which the model has the
\* ASCII, the Arabic-Indic and the fullwidth digits.
IsUnicodeDigit(c) ==
    \/ c \in 48..57
    \/ c \in 1632..1641
    \/ c \in 65296..65305

\* phone_regex().is_match(phone) for ^\+[1-9]\d{1,14}$; without the m flag
\* $ is the end of the text only.
phone_regex_is_match(phone) ==
    /\ Len(phone) \in 3..16
    /\ phone[1] = 43
    /\ phone[2] \in 49..57
    /\ \A i \in 3..Len(phone) : IsUnicodeDigit(phone[i])

PhoneFormatMessage == "Invalid phone number format. Use E.164 format (e.g., +15551234567)"

validate_phone_accepts_all(phone) == Ok("unit")

validate_phone(phone) ==
    IF ~phone_regex_is_match(phone) THEN Err(Validation(PhoneFormatMessage))
    ELSE Ok("unit")

validate_text(text) ==
    IF text = <<>> THEN Err(Validation("Message text is required"))
    ELSE IF StrLen(text) > MAX_TEXT_LENGTH
    THEN Err(Validation("Message text exceeds maximum length (1600 characters)"))
    ELSE Ok("unit")

\* A required identifier: `if id.is_empty() { return Err(Validation) }`.
require_id(id, what) ==
    IF id = <<>> THEN Err(Validation(what)) ELSE Ok("unit")

\* The first Err of a sequence of checks, as a chain of ? gives it.
RECURSIVE FirstErr(_)
FirstErr(checks) ==
    IF checks = <<>> THEN Ok("unit")
    ELSE IF ~Head(checks).ok THEN Head(checks)
    ELSE FirstErr(Tail(checks))

\* format!("Invalid phone number at index {}", i) and its like for the
\* text, for the indices of the model's batches.
InvalidPhoneAtIndex ==
    <<"Invalid phone number at index 0", "Invalid phone number at index 1",
      "Invalid phone number at index 2">>

InvalidTextAtIndex ==
    <<"Invalid message text at index 0", "Invalid message text at index 1",
      "Invalid message text at index 2">>

\* The loop of send_batch and preview_batch over the messages from index i
\* (0-based, as enumerate() counts).
RECURSIVE validate_each(_, _)
validate_each(msgs, i) ==
    IF i >= Len(msgs) THEN Ok("unit")
    ELSE IF ~validate_phone(msgs[i + 1].to).ok
    THEN Err(Validation(InvalidPhoneAtIndex[i + 1]))
    ELSE IF ~validate_text(msgs[i + 1].text).ok
    THEN Err(Validation(InvalidTextAtIndex[i + 1]))
    ELSE validate_each(msgs, i + 1)

validate_batch(msgs) ==
    IF msgs = <<>> THEN Err(Validation("Messages array is required"))
    ELSE validate_each(msgs, 0)

\* urlencoding::encode: every byte but the unreserved ones (letters, digits,
\* '-', '_', '.', '~') becomes %XX, in upper-case hexadecimal.
IsUnreserved(b) ==
    \/ b \in 48..57
    \/ b \in 65..90
    \/ b \in 97..122
    \/ b \in {45, 46, 95, 126}

UpperHexDigit(n) == IF n < 10 THEN 48 + n ELSE 55 + n

\* The UTF-8 bytes of a character of the Basic Multilingual Plane.
Utf8(c) ==
    IF c < 128 THEN <<c>>
    ELSE IF c < 2048 THEN <<192 + (c \div 64), 128 + (c % 64)>>
    ELSE <<224 + (c \div 4096), 128 + ((c \div 64) % 64), 128 + (c % 64)>>

EncodeByte(b) ==
    IF IsUnreserved(b) THEN <<b>>
    ELSE <<37, UpperHexDigit(b \div 16), UpperHexDigit(b % 16)>>

RECURSIVE Flatten(_)
Flatten(parts) ==
    IF parts = <<>> THEN <<>> ELSE Head(parts) \o Flatten(Tail(parts))

urlencoding_encode(s) ==
    Flatten([i \in 1..Len(s) |->
                LET bytes == Utf8(s[i])
                IN  Flatten([j \in 1..Len(bytes) |-> EncodeByte(bytes[j])])])

\* How a method writes an identifier into its path.
Embed(encodes, id) == IF encodes THEN urlencoding_encode(id) ELSE id

\* A route: its segments, a segment being literal text or the place of the
\* n-th identifier; format! joins them, each behind a '/'.
Lit(text) == [slot |-> 0, text |-> text]
Slot(n) == [slot |-> n, text |-> <<>>]

FormatPath(route, encodes, ids) ==
    Flatten([i \in 1..Len(route) |->
                <<47>> \o (IF route[i].slot = 0 THEN route[i].text
                           ELSE Embed(encodes, ids[route[i].slot]))])

\* A method of a resource that takes identifiers: its HTTP verb, its route,
\* whether it rejects an empty identifier, whether it URL-encodes.
Method(resource, name, verb, route, checks_empty, encodes) ==
    [resource |-> resource, name |-> name, verb |-> verb, route |-> route,
     checks_empty |-> checks_empty, encodes |-> encodes]

\* messages.rs
MessagesIdMethods ==
    { Method("messages", "get", "GET", <<Lit(Seg_messages), Slot(1)>>, TRUE, TRUE),
      Method("messages", "get_scheduled", "GET",
             <<Lit(Seg_messages), Lit(Seg_scheduled), Slot(1)>>, TRUE, TRUE),
      Method("messages", "cancel_scheduled", "DELETE",
             <<Lit(Seg_messages), Lit(Seg_scheduled), Slot(1)>>, TRUE, TRUE),
      Method("messages", "get_batch", "GET",
             <<Lit(Seg_messages), Lit(Seg_batch), Slot(1)>>, TRUE, TRUE) }

\* webhook_resource.rs
WebhooksIdMethods ==
    { Method("webhooks", "get", "GET", <<Lit(Seg_webhooks), Slot(1)>>, FALSE, FALSE),
      Method("webhooks", "update", "PATCH", <<Lit(Seg_webhooks), Slot(1)>>, FALSE, FALSE),
      Method("webhooks", "delete", "DELETE", <<Lit(Seg_webhooks), Slot(1)>>, FALSE, FALSE),
      Method("webhooks", "test", "POST",
             <<Lit(Seg_webhooks), Slot(1), Lit(Seg_test)>>, FALSE, FALSE),
      Method("webhooks", "rotate_secret", "POST",
             <<Lit(Seg_webhooks), Slot(1), Lit(Seg_rotate_secret)>>, FALSE, FALSE),
      Method("webhooks", "list_deliveries", "GET",
             <<Lit(Seg_webhooks), Slot(1), Lit(Seg_deliveries)>>, FALSE, FALSE),
      Method("webhooks", "get_delivery", "GET",
             <<Lit(Seg_webhooks), Slot(1), Lit(Seg_deliveries), Slot(2)>>,
             FALSE, FALSE),
      Method("webhooks", "retry_delivery", "POST",
             <<Lit(Seg_webhooks), Slot(1), Lit(Seg_deliveries), Slot(2),
               Lit(Seg_retry)>>, FALSE, FALSE) }

\* verify.rs
VerifyIdMethods ==
    { Method("verify", "resend", "POST",
             <<Lit(Seg_verify), Slot(1), Lit(Seg_resend)>>, FALSE, FALSE),
      Method("verify", "check", "POST",
             <<Lit(Seg_verify), Slot(1), Lit(Seg_check)>>, FALSE, FALSE),
      Method("verify", "get", "GET", <<Lit(Seg_verify), Slot(1)>>, FALSE, FALSE) }

\* contacts.rs
ContactsIdMethods ==
    { Method("contacts", "get", "GET", <<Lit(Seg_contacts), Slot(1)>>, FALSE, FALSE),
      Method("contacts", "update", "PATCH", <<Lit(Seg_contacts), Slot(1)>>, FALSE, FALSE),
      Method("contacts", "delete", "DELETE", <<Lit(Seg_contacts), Slot(1)>>, FALSE, FALSE),
      Method("contact_lists", "get", "GET",
             <<Lit(Seg_contact_lists), Slot(1)>>, FALSE, FALSE),
      Method("contact_lists", "update", "PATCH",
             <<Lit(Seg_contact_lists), Slot(1)>>, FALSE, FALSE),
      Method("contact_lists", "delete", "DELETE",
             <<Lit(Seg_contact_lists), Slot(1)>>, FALSE, FALSE),
      Method("contact_lists", "add_contacts", "POST",
             <<Lit(Seg_contact_lists), Slot(1), Lit(Seg_contacts)>>, FALSE, FALSE),
      Method("contact_lists", "remove_contact", "DELETE",
             <<Lit(Seg_contact_lists), Slot(1), Lit(Seg_contacts), Slot(2)>>,
             FALSE, FALSE) }

\* campaigns.rs
CampaignsIdMethods ==
    { Method("campaigns", "get", "GET", <<Lit(Seg_campaigns), Slot(1)>>, FALSE, FALSE),
      Method("campaigns", "update", "PATCH", <<Lit(Seg_campaigns), Slot(1)>>, FALSE, FALSE),
      Method("campaigns", "delete", "DELETE", <<Lit(Seg_campaigns), Slot(1)>>, FALSE, FALSE),
      Method("campaigns", "preview", "GET",
             <<Lit(Seg_campaigns), Slot(1), Lit(Seg_preview)>>, FALSE, FALSE),
      Method("campaigns", "send", "POST",
             <<Lit(Seg_campaigns), Slot(1), Lit(Seg_send)>>, FALSE, FALSE),
      Method("campaigns", "schedule", "POST",
             <<Lit(Seg_campaigns), Slot(1), Lit(Seg_schedule)>>, FALSE, FALSE),
      Method("campaigns", "cancel", "POST",
             <<Lit(Seg_campaigns), Slot(1), Lit(Seg_cancel)>>, FALSE, FALSE),
      Method("campaigns", "clone", "POST",
             <<Lit(Seg_campaigns), Slot(1), Lit(Seg_clone)>>, FALSE, FALSE) }

\* account_resource.rs
AccountIdMethods ==
    { Method("account", "get_api_key", "GET",
             <<Lit(Seg_account), Lit(Seg_keys), Slot(1)>>, FALSE, FALSE),
      Method("account", "get_api_key_usage", "GET",
             <<Lit(Seg_account), Lit(Seg_keys), Slot(1), Lit(Seg_usage)>>,
             FALSE, FALSE),
      Method("account", "revoke_api_key", "DELETE",
             <<Lit(Seg_account), Lit(Seg_keys), Slot(1)>>, FALSE, FALSE) }

\* The methods of Messages that send a body.
MessagesBodyMethods ==
    { Method("messages", "send", "POST", <<Lit(Seg_messages)>>, FALSE, FALSE),
      Method("messages", "schedule", "POST",
             <<Lit(Seg_messages), Lit(Seg_schedule)>>, FALSE, FALSE),
      Method("messages", "send_batch", "POST",
             <<Lit(Seg_messages), Lit(Seg_batch)>>, FALSE, FALSE),
      Method("messages", "preview_batch", "POST",
             <<Lit(Seg_messages), Lit(Seg_batch), Lit(Seg_preview)>>, FALSE, FALSE) }

IdMethods ==
    MessagesIdMethods \cup WebhooksIdMethods \cup VerifyIdMethods
        \cup ContactsIdMethods \cup CampaignsIdMethods \cup AccountIdMethods

\* The methods that return () and read no body.
UnitMethods ==
    { m \in IdMethods :
        \/ m.name \in {"delete", "add_contacts", "remove_contact", "revoke_api_key"} }

\* Number of identifiers a route takes.
Slots(route) == Cardinality({i \in 1..Len(route) : route[i].slot # 0})

\* A call: the method and its arguments.
Call(method, to, text, scheduled_at, messages, ids) ==
    [method |-> method, to |-> to, text |-> text, scheduled_at |-> scheduled_at,
     messages |-> messages, ids |-> ids]

BatchItem(to, text) == [to |-> to, text |-> text]

RequiredIdMessage(name) ==
    IF name = "get" THEN "Message ID is required"
    ELSE IF name = "get_batch" THEN "Batch ID is required"
    ELSE "Scheduled message ID is required"

\* The checks a method makes before it builds its request.
Preflight_skipped(call) == Ok("unit")

Preflight(call) ==
    LET m == call.method
    IN  IF m.resource = "messages" /\ m.name = "send"
        THEN FirstErr(<<validate_phone(call.to), validate_text(call.text)>>)
        ELSE IF m.resource = "messages" /\ m.name = "schedule"
        THEN FirstErr(<<validate_phone(call.to), validate_text(call.text),
                        IF call.scheduled_at = <<>>
                        THEN Err(Validation("scheduled_at is required"))
                        ELSE Ok("unit")>>)
        ELSE IF m.resource = "messages" /\ m.name \in {"send_batch", "preview_batch"}
        THEN validate_batch(call.messages)
        ELSE IF m.checks_empty
        THEN require_id(call.ids[1], RequiredIdMessage(m.name))
        ELSE Ok("unit")

\* What the method hands to the request executor.
Request(verb, path) == [verb |-> verb, path |-> path]

RequestOf(call) ==
    Request(call.method.verb,
            FormatPath(call.method.route, call.method.encodes, call.ids))

\* response.json().await? : the body as the method's type, or the decoding
\* error as Error::Http.
DecodeBody(method, response) ==
    IF method \in UnitMethods THEN Ok("unit")
    ELSE IF response.body.json THEN Ok(response.body)
    ELSE Err(Http("error decoding response body"))

VARIABLES
    m_pc,        \* "idle", "called", "checked", "executing", "returned"
    m_call,      \* the call
    m_request,   \* the request handed to the executor, once there is one
    m_result     \* what the method returned

call_vars == <<m_pc, m_call, m_request, m_result>>

MaxBatch == 2

Ids == {<<>>, IdPlain, IdSlash, IdQuery, IdFragment, IdDotDot}

Phones ==
    {PhoneValid, PhoneNoPlus, PhoneLeadingZero, PhoneTooShort, PhoneTooLong,
     PhoneNewline, PhoneArabicIndic}

\* n times the two-byte character U+00E9.
Accented(n) == [i \in 1..n |-> 233]

Texts ==
    {<<>>, TextHello, Letters(MAX_TEXT_LENGTH), Letters(MAX_TEXT_LENGTH + 1),
     Accented(MAX_TEXT_LENGTH \div 2), Accented((MAX_TEXT_LENGTH \div 2) + 1),
     Accented(MAX_TEXT_LENGTH), Accented(MAX_TEXT_LENGTH + 1)}

BatchItems ==
    {BatchItem(PhoneValid, TextHello), BatchItem(PhoneNoPlus, TextHello),
     BatchItem(PhoneValid, <<>>), BatchItem(PhoneNoPlus, <<>>),
     BatchItem(PhoneArabicIndic, TextHello),
     BatchItem(PhoneValid, Accented((MAX_TEXT_LENGTH \div 2) + 1))}

Batches == UNION {[1..n -> BatchItems] : n \in 0..MaxBatch}

Calls ==
    { Call(m, to, text, <<>>, <<>>, <<>>) :
        m \in {b \in MessagesBodyMethods : b.name = "send"},
        to \in Phones, text \in Texts }
    \cup
    { Call(m, to, text, at, <<>>, <<>>) :
        m \in {b \in MessagesBodyMethods : b.name = "schedule"},
        to \in Phones, text \in Texts, at \in {<<>>, ScheduledAt} }
    \cup
    { Call(m, <<>>, <<>>, <<>>, batch, <<>>) :
        m \in {b \in MessagesBodyMethods : b.name \in {"send_batch", "preview_batch"}},
        batch \in Batches }
    \cup
    { Call(m, <<>>, <<>>, <<>>, <<>>, <<id>>) :
        m \in {i \in IdMethods : Slots(i.route) = 1}, id \in Ids }
    \cup
    { Call(m, <<>>, <<>>, <<>>, <<>>, <<id1, id2>>) :
        m \in {i \in IdMethods : Slots(i.route) = 2}, id1 \in Ids, id2 \in Ids }

\* What the network does to the attempts of a call of this part of the model.
CallOutcomes ==
    { [ok |-> TRUE, response |-> Response(200, None, JsonBody(JAbsent, JAbsent, JAbsent)),
       error |-> None],
      [ok |-> TRUE, response |-> Response(NOT_FOUND, None, NoBody), error |-> None] }
    \cup
    { [ok |-> FALSE, response |-> None, error |-> e] :
        e \in {t \in TransportErrors :
                 t.text \in {"operation timed out", "connection refused",
                             "too many redirects"}} }

CallIdle ==
    /\ m_pc = "idle"
    /\ m_call = None
    /\ m_request = None
    /\ m_result = None

CallInit ==
    /\ m_pc = "called"
    /\ m_call \in {Some(c) : c \in Calls}
    /\ m_request = None
    /\ m_result = None

\* The method's own checks: an early return of Err(Validation), or on.
PreflightStep ==
    /\ m_pc = "called"
    /\ LET checked == Preflight(m_call.v)
       IN  IF checked.ok
           THEN m_pc' = "checked" /\ m_result' = None
           ELSE m_pc' = "returned" /\ m_result' = Some(checked)
    /\ UNCHANGED <<m_call, m_request, retry_vars>>

\* self.client.get / post / patch / delete (path, ..): request_with_retry
\* is entered.
SubmitRequest ==
    /\ m_pc = "checked"
    /\ pc = "idle"
    /\ m_request' = Some(RequestOf(m_call.v))
    /\ m_pc' = "executing"
    /\ pc' = "iter"
    /\ UNCHANGED <<m_call, m_result>>
    /\ UNCHANGED <<api_key, config, overflow_checks, attempt, last_error, delay,
                   result, requests_sent, slept, log, outcome, prev_error,
                   only_timeouts>>

\* The executor has returned: `?` on its error, else the body is read.
FinishCall ==
    /\ m_pc = "executing"
    /\ pc = "done"
    /\ m_result' = IF result.v.ok
                   THEN Some(DecodeBody(m_call.v.method, result.v.value))
                   ELSE Some(result.v)
    /\ m_pc' = "returned"
    /\ UNCHANGED <<m_call, m_request, retry_vars>>

(***************************************************************************)
(* Messages::iter (messages.rs): the stream of all messages, page by page. *)
(*                                                                         *)
(* A message is named by its position in the server's list of the messages *)
(* that match the filters. A page is asked of Messages::list, which        *)
(* answers Ok(page) or the error of its request. The offsets of the model  *)
(* stay far below the width of u32.                                        *)
(***************************************************************************)
MAX_LIMIT == 100
DEFAULT_BATCH_SIZE == 100

\* ListMessagesOptions: the struct, its fields public.
ListMessagesOptions(limit, offset, status, to) ==
    [limit |-> limit, offset |-> offset, status |-> status, to |-> to]

\* ListMessagesOptions::new()
ListMessagesOptions_new == ListMessagesOptions(None, None, None, None)

Min(a, b) == IF a < b THEN a ELSE b

\* ListMessagesOptions::limit, ::offset, ::status, ::to
with_limit(o, limit) == [o EXCEPT !.limit = Some(Min(limit, MAX_LIMIT))]
with_offset(o, offset) == [o EXCEPT !.offset = Some(offset)]
with_status(o, status) == [o EXCEPT !.status = Some(status)]
with_to(o, to) == [o EXCEPT !.to = Some(to)]

unwrap_or(opt, default) == IF opt.some THEN opt.v ELSE default

\* The list_opts of one turn of the loop.
list_opts(batch_size, offset, status, to) ==
    LET sized == with_offset(with_limit(ListMessagesOptions_new, batch_size), offset)
        filtered == IF status.some THEN with_status(sized, status.v) ELSE sized
    IN  IF to.some THEN with_to(filtered, to.v) ELSE filtered

\* `Err(e)?; return;` inside try_stream!: where the stream is after it has
\* yielded the error.
AfterPageError_continues == "loop"
AfterPageError == "ended"

\* `if page_len < batch_size as usize { break; }`
IsLastPage(page_len, batch_size) == page_len < batch_size

VARIABLES
    i_pc,          \* "idle", "loop", "listing", "yielding", "ended"
    i_options,     \* the options iter was called with
    i_offset,      \* offset
    i_batch_size,  \* batch_size
    i_status,      \* status
    i_to,          \* to
    i_page,        \* the messages of the current page not yet yielded
    i_page_len,    \* page_len
    i_items,       \* the items the stream has yielded, in order
    i_requests,    \* the calls of Messages::list so far: the options of each,
                   \* and how many items had been yielded when it was made
    i_results,     \* what each of these calls returned
    i_total        \* how many messages the server holds that match

iter_vars == <<i_pc, i_options, i_offset, i_batch_size, i_status, i_to, i_page,
               i_page_len, i_items, i_requests, i_results, i_total>>

\* The most calls of Messages::list one stream of the model makes.
MaxPages == 4

\* The largest number of matching messages, besides the small ones.
MaxMessages == 101

Limits == {None, Some(0), Some(1), Some(2), Some(MAX_LIMIT), Some(250)}
Offsets == {None, Some(0), Some(1)}
MessageStatuses == {None, Some("delivered")}
Recipients == {None, Some(PhoneValid)}
Totals == (0..3) \cup {MaxMessages}

IterOptions ==
    { ListMessagesOptions(l, o, s, t) :
        l \in Limits, o \in Offsets, s \in MessageStatuses, t \in Recipients }

\* The errors a call of Messages::list is seen to return.
ListErrors == {Timeout, Network("connection refused")}

\* The messages offset+1 .. offset+n of the server's list.
PageOf(offset, n) == [k \in 1..n |-> offset + k]

\* How many messages the server has for a page: at most the limit asked
\* for, at most what is left after the offset.
Available(opts, total) ==
    LET left == IF total > opts.offset.v THEN total - opts.offset.v ELSE 0
    IN  Min(opts.limit.v, left)

\* The page lengths the server may answer with: all it has, or one less.
PageLengths(opts, total) ==
    LET n == Available(opts, total)
    IN  {n} \cup (IF n > 0 THEN {n - 1} ELSE {})

IterIdle ==
    /\ i_pc = "idle"
    /\ i_options = ListMessagesOptions_new
    /\ i_offset = 0
    /\ i_batch_size = 0
    /\ i_status = None
    /\ i_to = None
    /\ i_page = <<>>
    /\ i_page_len = 0
    /\ i_items = <<>>
    /\ i_requests = <<>>
    /\ i_results = <<>>
    /\ i_total = 0

\* iter(options): the locals captured before the stream is made.
IterInit ==
    /\ i_pc = "loop"
    /\ i_options \in IterOptions
    /\ i_offset = unwrap_or(i_options.offset, 0)
    /\ i_batch_size = unwrap_or(i_options.limit, DEFAULT_BATCH_SIZE)
    /\ i_status = i_options.status
    /\ i_to = i_options.to
    /\ i_page = <<>>
    /\ i_page_len = 0
    /\ i_items = <<>>
    /\ i_requests = <<>>
    /\ i_results = <<>>
    /\ i_total \in Totals

\* The top of the loop: list_opts is built and self.list(Some(list_opts))
\* is called.
ListCall ==
    /\ i_pc = "loop"
    /\ Len(i_requests) < MaxPages
    /\ i_requests' = Append(i_requests,
                            [opts |-> list_opts(i_batch_size, i_offset, i_status, i_to),
                             yielded |-> Len(i_items)])
    /\ i_pc' = "listing"
    /\ UNCHANGED <<i_options, i_offset, i_batch_size, i_status, i_to, i_page,
                   i_page_len, i_items, i_results, i_total>>

\* `.await` gives Ok(p): page and page_len are set.
PageArrives(n) ==
    /\ i_pc = "listing"
    /\ LET opts == i_requests[Len(i_requests)].opts
       IN  /\ n \in PageLengths(opts, i_total)
           /\ i_page' = PageOf(opts.offset.v, n)
           /\ i_results' = Append(i_results, Ok(PageOf(opts.offset.v, n)))
    /\ i_page_len' = n
    /\ i_pc' = "yielding"
    /\ UNCHANGED <<i_options, i_offset, i_batch_size, i_status, i_to, i_items,
                   i_requests, i_total>>

\* `.await` gives Err(e): the stream yields Err(e) and ends.
PageFails(e) ==
    /\ i_pc = "listing"
    /\ i_results' = Append(i_results, Err(e))
    /\ i_items' = Append(i_items, Err(e))
    /\ i_pc' = AfterPageError
    /\ UNCHANGED <<i_options, i_offset, i_batch_size, i_status, i_to, i_page,
                   i_page_len, i_requests, i_total>>

\* `for message in page { yield message; }`: one message.
YieldMessage ==
    /\ i_pc = "yielding"
    /\ i_page # <<>>
    /\ i_items' = Append(i_items, Ok(Head(i_page)))
    /\ i_page' = Tail(i_page)
    /\ UNCHANGED <<i_pc, i_options, i_offset, i_batch_size, i_status, i_to,
                   i_page_len, i_requests, i_results, i_total>>

\* After the for loop: break on a short page, else the offset moves on.
PageDone ==
    /\ i_pc = "yielding"
    /\ i_page = <<>>
    /\ IF IsLastPage(i_page_len, i_batch_size)
       THEN i_pc' = "ended" /\ UNCHANGED i_offset
       ELSE i_pc' = "loop" /\ i_offset' = i_offset + i_batch_size
    /\ UNCHANGED <<i_options, i_batch_size, i_status, i_to, i_page, i_page_len,
                   i_items, i_requests, i_results, i_total>>

(***************************************************************************)
(* Cancellation (client.rs): the future of request_with_retry is dropped   *)
(* while it is suspended at one of its two await points, the backoff       *)
(* sleep or the attempt's request.                                         *)
(***************************************************************************)
VARIABLES
    cancelled    \* Option: where the call was, what it had sent and the
                 \* client's fields, as they were when the call was dropped

cancel_vars == <<cancelled>>

\* Where the call is once its future is dropped: none of its code runs again.
AfterCancel_resumes(at) == at
AfterCancel(at) == "cancelled"

CancelIdle == cancelled = None

\* drop(future) at `tokio::time::sleep(delay).await` or `request_fn().await`.
Cancel ==
    /\ pc \in {"sleeping", "waiting"}
    /\ cancelled = None
    /\ cancelled' = Some([at |-> pc, attempt |-> attempt,
                          requests_sent |-> requests_sent, log |-> log,
                          api_key |-> api_key, config |-> config])
    /\ pc' = AfterCancel(pc)
    /\ UNCHANGED <<api_key, config, overflow_checks, attempt, last_error, delay,
                   result, requests_sent, slept, log, outcome, prev_error,
                   only_timeouts>>

(***************************************************************************)
(* Concurrent calls (client.rs): several futures of request_with_retry run *)
(* on one Sendly, shared by reference or cloned. Each future holds its own *)
(* `attempt` and `last_error`; all of them read the same api_key and       *)
(* config through &self.                                                   *)
(***************************************************************************)
\* The calls in flight at once.
Callers == {1, 2}

\* The largest max_retries of the client the calls share.
MaxSharedRetries == 2

\* Whose `attempt` and `last_error` a call reads and writes: its own, they
\* are locals of its future.
LocalsOf_shared(call) == 1
LocalsOf(call) == call

VARIABLES
    t_client,      \* api_key and config as Sendly was constructed
    t_pc,          \* per call: iter, sleeping, slept, waiting, done
    t_attempt,     \* per call: attempt
    t_last_error,  \* per call: last_error
    t_result,      \* per call: what it returned
    t_sent,        \* per call: the requests it handed to the transport
    t_sleeps,      \* per call: the delays it slept, in order
    t_answers      \* per call: the transport's answers to its attempts, in order

conc_vars == <<t_client, t_pc, t_attempt, t_last_error, t_result, t_sent,
               t_sleeps, t_answers>>

\* What the transport does to an attempt of one of the concurrent calls.
ConcurrentOutcomes ==
    { [ok |-> TRUE, response |-> Response(200, None, JsonBody(JAbsent, JAbsent, JAbsent)),
       error |-> None] }
    \cup
    { [ok |-> FALSE, response |-> None, error |-> e] :
        e \in {t \in TransportErrors :
                 t.text \in {"operation timed out", "connection refused",
                             "too many redirects"}} }

ConcIdle ==
    /\ t_client = None
    /\ t_pc = <<>>
    /\ t_attempt = <<>>
    /\ t_last_error = <<>>
    /\ t_result = <<>>
    /\ t_sent = <<>>
    /\ t_sleeps = <<>>
    /\ t_answers = <<>>

\* Every call has entered request_with_retry.
ConcInit ==
    /\ t_client = Some([api_key |-> api_key, config |-> config])
    /\ t_pc = [c \in Callers |-> "iter"]
    /\ t_attempt = [c \in Callers |-> 0]
    /\ t_last_error = [c \in Callers |-> None]
    /\ t_result = [c \in Callers |-> None]
    /\ t_sent = [c \in Callers |-> 0]
    /\ t_sleeps = [c \in Callers |-> <<>>]
    /\ t_answers = [c \in Callers |-> <<>>]

\* `if attempt > 0 { .. tokio::time::sleep(delay)` of one call.
CallBackoffBegin(c) ==
    /\ t_pc[c] = "iter"
    /\ t_attempt[LocalsOf(c)] > 0
    /\ t_pc' = [t_pc EXCEPT ![c] = "sleeping"]
    /\ t_sleeps' = [t_sleeps EXCEPT
                      ![c] = Append(@, Pow2U64(t_attempt[LocalsOf(c)] - 1).value)]
    /\ UNCHANGED <<t_client, t_attempt, t_last_error, t_result, t_sent, t_answers>>

\* The timer of one call fires.
CallBackoffEnd(c) ==
    /\ t_pc[c] = "sleeping"
    /\ t_pc' = [t_pc EXCEPT ![c] = "slept"]
    /\ UNCHANGED <<t_client, t_attempt, t_last_error, t_result, t_sent, t_sleeps,
                   t_answers>>

\* `request_fn()` of one call.
CallSendRequest(c) ==
    /\ \/ t_pc[c] = "iter" /\ t_attempt[LocalsOf(c)] = 0
       \/ t_pc[c] = "slept"
    /\ t_pc' = [t_pc EXCEPT ![c] = "waiting"]
    /\ t_sent' = [t_sent EXCEPT ![c] = @ + 1]
    /\ UNCHANGED <<t_client, t_attempt, t_last_error, t_result, t_sleeps, t_answers>>

\* The transport answers one call's attempt with o.
CallRequestCompletes(c, o) ==
    /\ t_pc[c] = "waiting"
    /\ t_answers' = [t_answers EXCEPT ![c] = Append(@, o)]
    /\ LET own == LocalsOf(c)
           m == MatchOutcome(o, t_last_error[own])
       IN  /\ t_last_error' = [t_last_error EXCEPT ![own] = m.last_error]
           /\ IF m.returns
              THEN /\ t_result' = [t_result EXCEPT ![c] = Some(m.value)]
                   /\ t_pc' = [t_pc EXCEPT ![c] = "done"]
                   /\ UNCHANGED t_attempt
              ELSE IF HasNextAttempt(t_attempt[own], config.max_retries)
              THEN /\ t_attempt' = [t_attempt EXCEPT ![own] = @ + 1]
                   /\ t_pc' = [t_pc EXCEPT ![c] = "iter"]
                   /\ UNCHANGED t_result
              ELSE /\ t_result' = [t_result EXCEPT ![c] = Some(AfterLoop(m.last_error))]
                   /\ t_pc' = [t_pc EXCEPT ![c] = "done"]
                   /\ UNCHANGED t_attempt
    /\ UNCHANGED <<t_client, t_sent, t_sleeps>>

(***************************************************************************)
(* The list options (models.rs, verify.rs) and the query a list operation  *)
(* sends. The six options structs have the same `limit` and `offset`       *)
(* fields, both public, the same builders and the same to_query_params.    *)
(***************************************************************************)
ListOptionsKinds ==
    {"ListMessagesOptions", "ListScheduledMessagesOptions", "ListBatchesOptions",
     "ListDeliveriesOptions", "ListTransactionsOptions", "ListVerificationsOptions"}

\* u32::to_string: the decimal digits, most significant first.
RECURSIVE u32_to_string(_)
u32_to_string(n) ==
    IF n < 10 THEN <<Digits[n + 1]>>
    ELSE Append(u32_to_string(n \div 10), Digits[(n % 10) + 1])

\* to_query_params: a pair for every field that is Some, in the struct's order.
to_query_params(o) ==
    (IF o.limit.some THEN <<<<"limit", u32_to_string(o.limit.v)>>>> ELSE <<>>)
    \o (IF o.offset.some THEN <<<<"offset", u32_to_string(o.offset.v)>>>> ELSE <<>>)
    \o (IF o.status.some THEN <<<<"status", o.status.v>>>> ELSE <<>>)
    \o (IF o.to.some THEN <<<<"to", o.to.v>>>> ELSE <<>>)

VARIABLES
    l_pc,       \* "idle", "building", "sent"
    l_kind,     \* which options struct
    l_options,  \* the options value
    l_how,      \* how its limit was set last: "default", "builder", "field"
    l_asked,    \* the number last given for the limit
    l_query     \* the query parameters of the request, once sent

list_vars == <<l_pc, l_kind, l_options, l_how, l_asked, l_query>>

\* The numbers the model gives for a limit or an offset.
LimitChoices == {0, 1, 20, 99, 100, 101, 250, 1000}
OffsetChoices == {0, 7}

ListIdle ==
    /\ l_pc = "idle"
    /\ l_kind = ""
    /\ l_options = ListMessagesOptions_new
    /\ l_how = "default"
    /\ l_asked = 0
    /\ l_query = <<>>

\* Options::new()
ListInit ==
    /\ l_pc = "building"
    /\ l_kind \in ListOptionsKinds
    /\ l_options = ListMessagesOptions_new
    /\ l_how = "default"
    /\ l_asked = 0
    /\ l_query = <<>>

\* options.limit(n)
BuilderLimit(n) ==
    /\ l_pc = "building"
    /\ l_options' = with_limit(l_options, n)
    /\ l_how' = "builder"
    /\ l_asked' = n
    /\ UNCHANGED <<l_pc, l_kind, l_query>>

\* options.limit = Some(n), or the struct written out with limit: Some(n)
SetLimitField(n) ==
    /\ l_pc = "building"
    /\ l_options' = [l_options EXCEPT !.limit = Some(n)]
    /\ l_how' = "field"
    /\ l_asked' = n
    /\ UNCHANGED <<l_pc, l_kind, l_query>>

\* options.offset(n)
BuilderOffset(n) ==
    /\ l_pc = "building"
    /\ l_options' = with_offset(l_options, n)
    /\ UNCHANGED <<l_pc, l_kind, l_how, l_asked, l_query>>

\* list(Some(options)): the query of the GET request.
ListRequest ==
    /\ l_pc = "building"
    /\ l_query' = to_query_params(l_options)
    /\ l_pc' = "sent"
    /\ UNCHANGED <<l_kind, l_options, l_how, l_asked>>

\* No call of request_with_retry is under way.
RetryParked ==
    /\ api_key = "sk_test_v1_key"
    /\ overflow_checks = FALSE
    /\ pc = "idle"
    /\ attempt = 0
    /\ last_error = None
    /\ delay = Zero
    /\ result = None
    /\ requests_sent = 0
    /\ slept = Zero
    /\ log = <<>>
    /\ outcome = None
    /\ prev_error = None
    /\ only_timeouts = TRUE

RetryIdle == RetryParked /\ config = SendlyConfig(DefaultMaxRetries)

vars == <<retry_vars, err_vars, wh_vars, ver_vars, call_vars, iter_vars, cancel_vars, conc_vars, list_vars>>

(***************************************************************************)
(* Spec: one call of request_with_retry.                                   *)
(***************************************************************************)
Init == RetryInit /\ ErrIdle /\ WhIdle /\ VerIdle /\ CallIdle /\ IterIdle /\ CancelIdle /\ ConcIdle /\ ListIdle

Next ==
    \/ BackoffBegin /\ UNCHANGED <<err_vars, wh_vars, ver_vars, call_vars, iter_vars, cancel_vars, conc_vars, list_vars>>
    \/ BackoffEnd /\ UNCHANGED <<err_vars, wh_vars, ver_vars, call_vars, iter_vars, cancel_vars, conc_vars, list_vars>>
    \/ SendRequest /\ UNCHANGED <<err_vars, wh_vars, ver_vars, call_vars, iter_vars, cancel_vars, conc_vars, list_vars>>
    \/ \E o \in Outcomes : RequestCompletes(o) /\ UNCHANGED <<err_vars, wh_vars, ver_vars, call_vars, iter_vars, cancel_vars, conc_vars, list_vars>>

Spec == Init /\ [][Next]_vars

(***************************************************************************)
(* SpecError: a response classified, an error inspected.                   *)
(***************************************************************************)
InitError == ErrInit /\ RetryIdle /\ WhIdle /\ VerIdle /\ CallIdle /\ IterIdle /\ CancelIdle /\ ConcIdle /\ ListIdle

NextError ==
    \/ HandleResponse /\ UNCHANGED <<retry_vars, wh_vars, ver_vars, call_vars, iter_vars, cancel_vars, conc_vars, list_vars>>
    \/ ReturnLocalError /\ UNCHANGED <<retry_vars, wh_vars, ver_vars, call_vars, iter_vars, cancel_vars, conc_vars, list_vars>>
    \/ IsRetryable /\ UNCHANGED <<retry_vars, wh_vars, ver_vars, call_vars, iter_vars, cancel_vars, conc_vars, list_vars>>
    \/ RetryAfter /\ UNCHANGED <<retry_vars, wh_vars, ver_vars, call_vars, iter_vars, cancel_vars, conc_vars, list_vars>>

SpecError == InitError /\ [][NextError]_vars

(***************************************************************************)
(* SpecWebhook: one call of Webhooks::parse_event.                         *)
(***************************************************************************)
InitWebhook == WhInit /\ RetryIdle /\ ErrIdle /\ VerIdle /\ CallIdle /\ IterIdle /\ CancelIdle /\ ConcIdle /\ ListIdle

NextWebhook ==
    \/ VerifyStep /\ UNCHANGED <<retry_vars, err_vars, ver_vars, call_vars, iter_vars, cancel_vars, conc_vars, list_vars>>
    \/ DeserializeStep /\ UNCHANGED <<retry_vars, err_vars, ver_vars, call_vars, iter_vars, cancel_vars, conc_vars, list_vars>>
    \/ ValidateStep /\ UNCHANGED <<retry_vars, err_vars, ver_vars, call_vars, iter_vars, cancel_vars, conc_vars, list_vars>>

SpecWebhook == InitWebhook /\ [][NextWebhook]_vars

(***************************************************************************)
(* SpecVerify: a signature is made or supplied, then verify_signature runs.*)
(***************************************************************************)
InitVerify == VerInit /\ RetryIdle /\ ErrIdle /\ WhIdle /\ CallIdle /\ IterIdle /\ CancelIdle /\ ConcIdle /\ ListIdle

NextVerify ==
    \/ \E key \in Secrets :
          GenerateSignature(key) /\ UNCHANGED <<retry_vars, err_vars, wh_vars, call_vars, iter_vars, cancel_vars, conc_vars, list_vars>>
    \/ /\ v_pc = "signed"
       /\ \E i \in 1..Len(v_signature) : \E byte \in Mutations(v_signature[i]) :
             MutateByte(i, byte) /\ UNCHANGED <<retry_vars, err_vars, wh_vars, call_vars, iter_vars, cancel_vars, conc_vars, list_vars>>
    \/ /\ v_pc = "input"
       /\ \E signature \in OtherSignatures(v_payload) :
             SupplySignature(signature) /\ UNCHANGED <<retry_vars, err_vars, wh_vars, call_vars, iter_vars, cancel_vars, conc_vars, list_vars>>
    \/ VerifyBegin /\ UNCHANGED <<retry_vars, err_vars, wh_vars, call_vars, iter_vars, cancel_vars, conc_vars, list_vars>>
    \/ VerifyMac /\ UNCHANGED <<retry_vars, err_vars, wh_vars, call_vars, iter_vars, cancel_vars, conc_vars, list_vars>>
    \/ CompareBegin /\ UNCHANGED <<retry_vars, err_vars, wh_vars, call_vars, iter_vars, cancel_vars, conc_vars, list_vars>>
    \/ CompareStep /\ UNCHANGED <<retry_vars, err_vars, wh_vars, call_vars, iter_vars, cancel_vars, conc_vars, list_vars>>
    \/ CompareEnd /\ UNCHANGED <<retry_vars, err_vars, wh_vars, call_vars, iter_vars, cancel_vars, conc_vars, list_vars>>

SpecVerify == InitVerify /\ [][NextVerify]_vars

(***************************************************************************)
(* SpecResource: one call of a resource method, from its own checks        *)
(* through the request executor to its result.                             *)
(***************************************************************************)
InitResource == CallInit /\ RetryIdle /\ ErrIdle /\ WhIdle /\ VerIdle /\ IterIdle /\ CancelIdle /\ ConcIdle /\ ListIdle

NextResource ==
    \/ PreflightStep /\ UNCHANGED <<err_vars, wh_vars, ver_vars, iter_vars, cancel_vars, conc_vars, list_vars>>
    \/ SubmitRequest /\ UNCHANGED <<err_vars, wh_vars, ver_vars, iter_vars, cancel_vars, conc_vars, list_vars>>
    \/ BackoffBegin /\ UNCHANGED <<err_vars, wh_vars, ver_vars, call_vars, iter_vars, cancel_vars, conc_vars, list_vars>>
    \/ BackoffEnd /\ UNCHANGED <<err_vars, wh_vars, ver_vars, call_vars, iter_vars, cancel_vars, conc_vars, list_vars>>
    \/ SendRequest /\ UNCHANGED <<err_vars, wh_vars, ver_vars, call_vars, iter_vars, cancel_vars, conc_vars, list_vars>>
    \/ \E o \in CallOutcomes :
          RequestCompletes(o) /\ UNCHANGED <<err_vars, wh_vars, ver_vars, call_vars, iter_vars, cancel_vars, conc_vars, list_vars>>
    \/ FinishCall /\ UNCHANGED <<err_vars, wh_vars, ver_vars, iter_vars, cancel_vars, conc_vars, list_vars>>

SpecResource == InitResource /\ [][NextResource]_vars

(***************************************************************************)
(* SpecIter: one stream of Messages::iter, polled to its end.              *)
(***************************************************************************)
InitIter == IterInit /\ RetryIdle /\ ErrIdle /\ WhIdle /\ VerIdle /\ CallIdle /\ CancelIdle /\ ConcIdle /\ ListIdle

NextIter ==
    \/ ListCall /\ UNCHANGED <<retry_vars, err_vars, wh_vars, ver_vars, call_vars, cancel_vars, conc_vars, list_vars>>
    \/ /\ i_pc = "listing"
       /\ \E n \in 0..MAX_LIMIT :
             PageArrives(n) /\ UNCHANGED <<retry_vars, err_vars, wh_vars, ver_vars, call_vars, cancel_vars, conc_vars, list_vars>>
    \/ \E e \in ListErrors :
          PageFails(e) /\ UNCHANGED <<retry_vars, err_vars, wh_vars, ver_vars, call_vars, cancel_vars, conc_vars, list_vars>>
    \/ YieldMessage /\ UNCHANGED <<retry_vars, err_vars, wh_vars, ver_vars, call_vars, cancel_vars, conc_vars, list_vars>>
    \/ PageDone /\ UNCHANGED <<retry_vars, err_vars, wh_vars, ver_vars, call_vars, cancel_vars, conc_vars, list_vars>>

SpecIter == InitIter /\ [][NextIter]_vars

(***************************************************************************)
(* SpecCancel: one call of request_with_retry, which may be dropped at an  *)
(* await point.                                                            *)
(***************************************************************************)
InitCancel == RetryInit /\ ErrIdle /\ WhIdle /\ VerIdle /\ CallIdle /\ IterIdle /\ CancelIdle /\ ConcIdle /\ ListIdle

NextCancel ==
    \/ BackoffBegin /\ UNCHANGED <<err_vars, wh_vars, ver_vars, call_vars, iter_vars, cancel_vars, conc_vars, list_vars>>
    \/ BackoffEnd /\ UNCHANGED <<err_vars, wh_vars, ver_vars, call_vars, iter_vars, cancel_vars, conc_vars, list_vars>>
    \/ SendRequest /\ UNCHANGED <<err_vars, wh_vars, ver_vars, call_vars, iter_vars, cancel_vars, conc_vars, list_vars>>
    \/ \E o \in Outcomes :
          RequestCompletes(o) /\ UNCHANGED <<err_vars, wh_vars, ver_vars, call_vars, iter_vars, cancel_vars, conc_vars, list_vars>>
    \/ Cancel /\ UNCHANGED <<err_vars, wh_vars, ver_vars, call_vars, iter_vars, conc_vars, list_vars>>

SpecCancel == InitCancel /\ [][NextCancel]_vars

(***************************************************************************)
(* SpecLive: Spec, where a call that can take a step takes one: every      *)
(* sleep ends and every attempt is answered.                               *)
(***************************************************************************)
SpecLive == Init /\ [][Next]_vars /\ WF_vars(Next)

(***************************************************************************)
(* SpecConcurrent: two calls of request_with_retry on one client, their    *)
(* steps interleaved in every order.                                       *)
(***************************************************************************)
InitConcurrent ==
    /\ RetryParked
    /\ config \in {SendlyConfig(n) : n \in 0..MaxSharedRetries}
    /\ ConcInit
    /\ ErrIdle /\ WhIdle /\ VerIdle /\ CallIdle /\ IterIdle /\ CancelIdle /\ ListIdle

NextConcurrent ==
    \/ \E c \in Callers :
          CallBackoffBegin(c) /\ UNCHANGED <<retry_vars, err_vars, wh_vars, ver_vars, call_vars, iter_vars, cancel_vars, list_vars>>
    \/ \E c \in Callers :
          CallBackoffEnd(c) /\ UNCHANGED <<retry_vars, err_vars, wh_vars, ver_vars, call_vars, iter_vars, cancel_vars, list_vars>>
    \/ \E c \in Callers :
          CallSendRequest(c) /\ UNCHANGED <<retry_vars, err_vars, wh_vars, ver_vars, call_vars, iter_vars, cancel_vars, list_vars>>
    \/ \E c \in Callers : \E o \in ConcurrentOutcomes :
          CallRequestCompletes(c, o) /\ UNCHANGED <<retry_vars, err_vars, wh_vars, ver_vars, call_vars, iter_vars, cancel_vars, list_vars>>

SpecConcurrent == InitConcurrent /\ [][NextConcurrent]_vars

(***************************************************************************)
(* SpecList: an options value is made, by the builders or through its      *)
(* public fields, and passed to a list operation.                          *)
(***************************************************************************)
InitList ==
    ListInit /\ RetryIdle /\ ErrIdle /\ WhIdle /\ VerIdle /\ CallIdle /\ IterIdle /\ CancelIdle /\ ConcIdle

NextList ==
    \/ \E n \in LimitChoices :
          BuilderLimit(n) /\ UNCHANGED <<retry_vars, err_vars, wh_vars, ver_vars, call_vars, iter_vars, cancel_vars, conc_vars>>
    \/ \E n \in LimitChoices :
          SetLimitField(n) /\ UNCHANGED <<retry_vars, err_vars, wh_vars, ver_vars, call_vars, iter_vars, cancel_vars, conc_vars>>
    \/ \E n \in OffsetChoices :
          BuilderOffset(n) /\ UNCHANGED <<retry_vars, err_vars, wh_vars, ver_vars, call_vars, iter_vars, cancel_vars, conc_vars>>
    \/ ListRequest /\ UNCHANGED <<retry_vars, err_vars, wh_vars, ver_vars, call_vars, iter_vars, cancel_vars, conc_vars>>

SpecList == InitList /\ [][NextList]_vars

(***************************************************************************)
(* Properties of request_with_retry, checked under Spec.                   *)
(***************************************************************************)
\* 2^n - 1: the bits 0 .. n-1.
Pow2Minus1(n) == 0..(n - 1)

LastEvent == log[Len(log)]

AnsweredByResponse == outcome.some /\ outcome.v.ok
AnsweredByError == outcome.some /\ ~outcome.v.ok
RetryableAnswer ==
    AnsweredByError /\ (outcome.v.error.is_timeout \/ outcome.v.error.is_connect)
OtherTransportFailure ==
    AnsweredByError /\ ~outcome.v.error.is_timeout /\ ~outcome.v.error.is_connect

SleepsIn(l) == {i \in 1..Len(l) : l[i].ev = "sleep"}

\* C1: with max_retries = N and a transport that answers every attempt with a
\* timeout, the call makes exactly N+1 attempts, sleeps 2^N - 1 seconds in
\* total and then returns Error::Timeout (it does not end any other way).
C1_AlwaysTimeout ==
    only_timeouts =>
        /\ pc # "panicked"
        /\ pc = "done" =>
              /\ requests_sent = config.max_retries + 1
              /\ slept = Pow2Minus1(config.max_retries)
              /\ result = Some(Err(Timeout))

\* C2: a response, whatever its status and at whatever attempt, ends the call:
\* nothing is sent or slept after it, the result is the classification of that
\* response alone whatever was recorded before, and a 500 answered to the first
\* attempt gives Error::Api with status_code 500 and no sleep at all.
C2_ResponseEndsCall ==
    AnsweredByResponse =>
        /\ pc = "done"
        /\ LastEvent = Event("response", attempt, Zero)
        /\ requests_sent = attempt + 1
        /\ Cardinality(SleepsIn(log)) = attempt
        /\ result = Some(handle_response(outcome.v.response))
        /\ is_success(outcome.v.response.status) => result = Some(Ok(outcome.v.response))
        /\ outcome.v.response.status = 500 =>
              /\ ~result.v.ok
              /\ result.v.err.kind = "Api"
              /\ result.v.err.status_code = 500
              /\ attempt = 0 => slept = Zero /\ SleepsIn(log) = {}

C2_Witness ==
    /\ AnsweredByResponse
    /\ outcome.v.response.status = 500
    /\ attempt = 2
    /\ prev_error = Some(Timeout)
    /\ attempt < config.max_retries
    /\ pc = "done"

\* C3: a transport failure that is neither a timeout nor a connect failure ends
\* the call at its attempt: it is returned as Error::Http, nothing is sent or
\* slept after it even when retries remain, and an error recorded by an earlier
\* attempt is not returned instead.
C3_OtherFailureIsTerminal ==
    OtherTransportFailure =>
        /\ pc = "done"
        /\ LastEvent = Event("failure", attempt, Zero)
        /\ requests_sent = attempt + 1
        /\ Cardinality(SleepsIn(log)) = attempt
        /\ result = Some(Err(Http(outcome.v.error)))
        /\ last_error = prev_error

C3_Witness ==
    /\ OtherTransportFailure
    /\ pc = "done"
    /\ attempt = 1
    /\ attempt < config.max_retries
    /\ prev_error = Some(Network("connection refused"))

\* C4: attempt 0 is sent with no sleep before it; attempt N > 0 is sent right
\* after one sleep of 2^(N-1) seconds, which starts after attempt N-1 failed and
\* ends before attempt N is sent; no sleep follows the final attempt.
C4_BackoffSchedule ==
    /\ \A i \in 1..Len(log) :
          /\ (log[i].ev = "send" /\ log[i].n = 0) => i = 1
          /\ (log[i].ev = "send" /\ log[i].n > 0) =>
                /\ i >= 4
                /\ log[i - 1] = Event("wake", log[i].n, {log[i].n - 1})
                /\ log[i - 2] = Event("sleep", log[i].n, {log[i].n - 1})
                /\ log[i - 3] = Event("failure", log[i].n - 1, Zero)
          /\ log[i].ev = "sleep" => log[i].secs = {log[i].n - 1}
    /\ pc = "done" => LastEvent.ev \in {"response", "failure"}

\* C5: when every one of the max_retries+1 attempts failed with a timeout or a
\* connect failure, the call returns the error recorded for the last attempt
\* (Timeout for a timeout, Network with that failure's text for a connect failure
\* that is no timeout), whatever the earlier attempts recorded.
C5_LastRecordedErrorReturned ==
    (pc = "done" /\ RetryableAnswer) =>
        /\ attempt = config.max_retries
        /\ requests_sent = config.max_retries + 1
        /\ outcome.v.error.is_timeout => result = Some(Err(Timeout))
        /\ (outcome.v.error.is_connect /\ ~outcome.v.error.is_timeout) =>
              result = Some(Err(Network(outcome.v.error.text)))

C5_Witness ==
    /\ pc = "done"
    /\ RetryableAnswer
    /\ config.max_retries = 2
    /\ outcome.v.error.text = "dns error"
    /\ prev_error = Some(Timeout)
    /\ result = Some(Err(Network("dns error")))

(***************************************************************************)
(* Properties of handle_response and of the error helpers, checked under   *)
(* SpecError.                                                              *)
(***************************************************************************)
Classified == e_pc = "held" /\ e_response.some
Failed == Classified /\ ~e_result.v.ok

\* The body read as the documented envelope {message?, error?, code?}: a member
\* is present when it is a JSON string.
IsEnvelope(body) ==
    body.json /\ \A j \in {body.message, body.error, body.code} : j.t # "num"
Present(body, j) == IsEnvelope(body) /\ j.t = "str"

\* C6: classification is decided by the status code alone: a 2xx returns the
\* response itself; 401, 402, 404, 429, 400 and 422 give Authentication,
\* InsufficientCredits, NotFound, RateLimit, Validation and Validation; any
\* other status gives Api with that status code and the envelope's `code`.
C6_StatusDecidesKind ==
    Classified =>
        LET s == e_response.v.status
            r == e_result.v
            body == e_response.v.body
        IN  /\ (s \in 200..299) => r = Ok(e_response.v)
            /\ (s \notin 200..299) => ~r.ok
            /\ s = 401 => r.err.kind = "Authentication"
            /\ s = 402 => r.err.kind = "InsufficientCredits"
            /\ s = 404 => r.err.kind = "NotFound"
            /\ s = 429 => r.err.kind = "RateLimit"
            /\ s \in {400, 422} => r.err.kind = "Validation"
            /\ (s \notin (200..299) \cup {400, 401, 402, 404, 422, 429}) =>
                  /\ r.err.kind = "Api"
                  /\ r.err.status_code = s
                  /\ r.err.code = IF Present(body, body.code) THEN Some(body.code.s)
                                  ELSE None

C6_Witness ==
    /\ Classified
    /\ e_response.v.status = 503
    /\ e_result.v = Err(Api("Too many requests", 503, Some("SERVICE_UNAVAILABLE")))

\* The value of a decimal numeral, of any size.
RECURSIVE NumeralValue(_, _)
NumeralValue(s, acc) ==
    IF s = <<>> THEN acc
    ELSE LET sum == AddBits(Mul10(acc), BitsOf(DigitVal(Head(s))))
         IN  IF sum = Zero THEN NumeralValue(Tail(s), Zero)
             ELSE NumeralValue(Tail(s), sum)

\* A header value that is a non-negative integer: one or more digits.
IsNumeral(v) == v # <<>> /\ \A i \in 1..Len(v) : IsDigit(v[i])
\* A header value that is an integer at all: digits after an optional sign.
IsInteger(v) ==
    IsNumeral(v) \/ (Len(v) > 1 /\ v[1] \in {"+", "-"} /\ IsNumeral(Tail(v)))

RateLimited == Failed /\ e_response.v.status = 429
HeaderOf(r) == r.headers.retry_after

NoRetryAfterElsewhere ==
    (e_pc = "held" /\ e_error.some /\ e_error.v.kind # "RateLimit" /\ e_retry_after.some)
        => e_retry_after.v = None

\* C7 as stated: a 429 whose Retry-After is a non-negative integer n gives
\* retry_after = Some(n); with no header or one that is no integer it gives
\* None; retry_after() of any error that is not RateLimit is None.
C7_AnyIntegerAttached ==
    /\ RateLimited =>
          LET h == HeaderOf(e_response.v)
          IN  /\ (h.some /\ IsNumeral(h.v)) =>
                    e_error.v.retry_after = Some(NumeralValue(h.v, Zero))
              /\ (~h.some \/ ~IsInteger(h.v)) => e_error.v.retry_after = None
    /\ NoRetryAfterElsewhere

\* C7 as amended: the same, for n up to u64::MAX = 2^64 - 1; a larger integer
\* gives None.
C7_U64Attached ==
    /\ RateLimited =>
          LET h == HeaderOf(e_response.v)
          IN  /\ (h.some /\ IsNumeral(h.v) /\ FitsU64(NumeralValue(h.v, Zero))) =>
                    e_error.v.retry_after = Some(NumeralValue(h.v, Zero))
              /\ (h.some /\ IsNumeral(h.v) /\ ~FitsU64(NumeralValue(h.v, Zero))) =>
                    e_error.v.retry_after = None
              /\ (~h.some \/ ~IsInteger(h.v)) => e_error.v.retry_after = None
              /\ e_retry_after.some => e_retry_after.v = e_error.v.retry_after
    /\ NoRetryAfterElsewhere

C7_Witness ==
    /\ RateLimited
    /\ HeaderOf(e_response.v) = Some(<<"6", "0">>)
    /\ e_retry_after = Some(Some({2, 3, 4, 5}))   \* 60 = 2^5 + 2^4 + 2^3 + 2^2

\* C8: the message of an error built from a failure response is the envelope's
\* `message` when present (also when `error` is present), otherwise its `error`
\* when present, otherwise "Unknown error", which is also the message whenever
\* the body is not the envelope.
C8_MessageFallback ==
    Failed =>
        LET body == e_response.v.body
        IN  e_error.v.message =
                IF Present(body, body.message) THEN body.message.s
                ELSE IF Present(body, body.error) THEN body.error.s
                ELSE "Unknown error"

C8_Witness ==
    /\ Failed
    /\ e_response.v.body.message = JStr("Rate limit exceeded")
    /\ e_response.v.body.error = JStr("Too many requests")
    /\ e_response.v.body.code = JAbsent
    /\ e_error.v.message = "Rate limit exceeded"

\* C9: is_retryable() is true for RateLimit, Network and Timeout and false for
\* Authentication, InsufficientCredits, Validation, NotFound, Api, Http and
\* Json; so an error the retry loop recorded and retried is retryable, and the
\* Error::Http it returns at once is not.
C9_RetryableKinds ==
    /\ (e_pc = "held" /\ e_error.some /\ e_retryable.some) =>
          /\ e_error.v.kind \in {"RateLimit", "Network", "Timeout"} => e_retryable.v = TRUE
          /\ e_error.v.kind \in {"Authentication", "InsufficientCredits", "Validation",
                                 "NotFound", "Api", "Http", "Json"} => e_retryable.v = FALSE
          /\ e_error.v.kind \in {"RateLimit", "Network", "Timeout", "Authentication",
                                 "InsufficientCredits", "Validation", "NotFound", "Api",
                                 "Http", "Json"}
    /\ \A t \in TransportErrors :
          LET m == MatchOutcome([ok |-> FALSE, response |-> None, error |-> t], None)
          IN  IF m.returns
              THEN m.value.err.kind = "Http" /\ ~is_retryable(m.value.err)
              ELSE is_retryable(m.last_error.v)

C9_Witness ==
    /\ e_pc = "held"
    /\ e_response.some
    /\ e_error.some
    /\ e_error.v.kind = "RateLimit"
    /\ e_retryable = Some(TRUE)

(***************************************************************************)
(* Properties of Webhooks::parse_event, checked under SpecWebhook.         *)
(***************************************************************************)
WhReturned(kind) ==
    /\ w_pc = "returned"
    /\ w_result.some
    /\ ~w_result.v.ok
    /\ w_result.v.err.kind = kind

WhVerifies == verify_signature(w_payload, w_signature, w_secret)

\* C10: parse_event checks the signature strictly before it deserializes.
\* Whenever the deserializer has been called, verify_signature was called
\* first and answered true.  A call whose signature does not verify returns
\* InvalidSignature, whatever the payload, without the deserializer having
\* run.  ParseError comes back only from a call whose signature verified,
\* and InvalidStructure only from one whose signature verified and whose
\* payload deserialized.
C10_SignatureBeforeDeserialize ==
    /\ \A i \in 1..Len(w_ops) :
          w_ops[i] = "from_str" =>
              /\ i = 2
              /\ w_ops[1] = "verify_signature"
              /\ WhVerifies
    /\ (w_pc = "returned" /\ ~WhVerifies) =>
          /\ w_result = Some(Err(InvalidSignature))
          /\ w_ops = <<"verify_signature">>
    /\ WhReturned("ParseError") =>
          /\ WhVerifies
          /\ w_ops = <<"verify_signature", "from_str">>
    /\ WhReturned("InvalidStructure") =>
          /\ WhVerifies
          /\ from_str(w_payload).ok
          /\ w_ops = <<"verify_signature", "from_str", "validate">>

\* A payload that is not JSON, sent with a well-formed signature made under
\* another secret: InvalidSignature, and the deserializer never ran.
C10_Witness ==
    /\ w_pc = "returned"
    /\ w_payload = TextNotJson
    /\ w_signature = generate_signature(w_payload, Secret2)
    /\ w_secret = Secret1
    /\ ~from_str(w_payload).ok
    /\ w_result = Some(Err(InvalidSignature))
    /\ w_ops = <<"verify_signature">>

\* C11: parse_event fails closed.  A call that has returned gave Ok(event)
\* exactly when the signature verifies, the payload deserializes as a
\* WebhookEvent and the event's id and created_at are both non-empty, and
\* then the event is the deserialized one; every other call gave one of
\* InvalidSignature, ParseError, InvalidStructure, and no event.
C11_FailsClosed ==
    w_pc = "returned" =>
        LET parsed == from_str(w_payload)
            accepted ==
                /\ WhVerifies
                /\ parsed.ok
                /\ parsed.value.id # <<>>
                /\ parsed.value.created_at # <<>>
        IN  /\ w_result.some
            /\ w_result.v.ok <=> accepted
            /\ w_result.v.ok => w_result.v.value = parsed.value
            /\ ~w_result.v.ok =>
                  /\ w_result.v.err.kind \in
                        {"InvalidSignature", "ParseError", "InvalidStructure"}
                  /\ DOMAIN w_result.v = {"ok", "err"}

\* A correctly signed event whose id is empty: the call has run all three
\* steps and returned InvalidStructure.
C11_Witness ==
    /\ WhReturned("InvalidStructure")
    /\ WhVerifies
    /\ from_str(w_payload).ok
    /\ from_str(w_payload).value.id = <<>>
    /\ from_str(w_payload).value.created_at # <<>>

(***************************************************************************)
(* Properties of verify_signature, generate_signature and                  *)
(* constant_time_compare, checked under SpecVerify.                        *)
(***************************************************************************)
\* verify_signature has returned.
Verified == v_pc = "done" /\ v_verdict.some

\* The signature verified is generate_signature(payload, secret) as made.
SignedWithSameSecret ==
    /\ v_origin.some
    /\ v_origin.v.by = "generate_signature"
    /\ v_origin.v.secret = v_secret
    /\ ~v_origin.v.mutated

\* C12 as stated: for all payload/secret pairs the signature that
\* generate_signature makes for the pair verifies against the pair.
C12_AllPairs ==
    (Verified /\ SignedWithSameSecret) => v_verdict.v = TRUE

\* C12 for non-empty pairs: when neither the payload nor the secret is
\* empty, the signature that generate_signature makes for the pair verifies
\* against the pair; when either is empty it does not.
C12_NonEmptyPairs ==
    (Verified /\ SignedWithSameSecret) =>
        /\ v_verdict.v = (v_payload # <<>> /\ v_secret # <<>>)
        /\ v_verdict.v = verify_signature(v_payload, v_signature, v_secret)

\* A non-empty pair, signed and verified with the same secret: true.
C12_Witness ==
    /\ Verified
    /\ SignedWithSameSecret
    /\ v_payload # <<>>
    /\ v_secret # <<>>
    /\ v_macs = 1
    /\ v_verdict.v = TRUE

\* The signature verified is generate_signature(payload, secret) with one
\* byte changed.
MutatedFromSameSecret ==
    /\ v_origin.some
    /\ v_origin.v.by = "generate_signature"
    /\ v_origin.v.secret = v_secret
    /\ v_origin.v.mutated

\* C13: for a non-empty payload and secret, the generated signature with any
\* one byte changed to a different value, at any position, the prefix
\* included, does not verify; and whatever the signature's origin,
\* verify_signature answers true only when the signature equals, byte for
\* byte, the one it computed.
C13_SingleByteMutationRejected ==
    /\ (Verified /\ MutatedFromSameSecret /\ v_payload # <<>> /\ v_secret # <<>>) =>
          v_verdict.v = FALSE
    /\ (Verified /\ v_verdict.v) =>
          /\ v_expected.some
          /\ v_signature = v_expected.v
          /\ v_signature = generate_signature(v_payload, v_secret)

\* The highest bit of a byte of the prefix was flipped; the loop ran over
\* all of the signature and the answer is false.
C13_Witness ==
    /\ Verified
    /\ MutatedFromSameSecret
    /\ v_payload # <<>>
    /\ v_secret # <<>>
    /\ v_expected.some
    /\ v_signature[3] = FlipBit(v_expected.v[3], 7)
    /\ v_steps = Len(v_signature)
    /\ v_verdict.v = FALSE

\* One of the three arguments of the call is the empty string.
SomeArgumentEmpty == v_payload = <<>> \/ v_signature = <<>> \/ v_secret = <<>>

\* C14: verify_signature returns false whenever the payload, the signature
\* or the secret is empty, whatever the other two are, and it has computed
\* no HMAC when it does; an HMAC is computed only for three non-empty
\* arguments.  parse_event, given the same arguments, returns
\* InvalidSignature.
C14_EmptyArgumentRejected ==
    /\ v_macs > 0 => ~SomeArgumentEmpty
    /\ (Verified /\ SomeArgumentEmpty) =>
          /\ v_verdict.v = FALSE
          /\ v_macs = 0
          /\ v_expected = None
          /\ v_steps = 0
          /\ ~verify_signature(v_payload, v_signature, v_secret)
          /\ parse_event(v_payload, v_signature, v_secret) = Err(InvalidSignature)

\* An event signed with the empty secret and verified against the empty
\* secret: false, with no HMAC computed by the verifier.
C14_Witness ==
    /\ Verified
    /\ SignedWithSameSecret
    /\ v_secret = <<>>
    /\ v_payload # <<>>
    /\ v_signature # <<>>
    /\ from_str(v_payload).ok
    /\ v_macs = 0
    /\ v_verdict.v = FALSE

\* constant_time_compare(signature, expected) has returned.
Compared == Verified /\ v_expected.some

\* C15: constant_time_compare(a, b) is true exactly when a and b are the same
\* byte sequence.  When the lengths are equal the loop body has run once for
\* every byte pair, however early the first difference is; when they differ
\* it has not run at all.  While the loop runs, the pairs before the current
\* one have each been processed once.
C15_CompareAllPairs ==
    /\ Compared =>
          /\ v_verdict.v = (v_signature = v_expected.v)
          /\ v_verdict.v = constant_time_compare(v_signature, v_expected.v)
          /\ v_steps = IF Len(v_signature) = Len(v_expected.v)
                       THEN Len(v_signature) ELSE 0
    /\ v_pc = "loop" => v_steps = v_i - 1

\* Two strings of one length that differ in their very first byte: the loop
\* still ran over every pair before the answer, false.
C15_Witness ==
    /\ Compared
    /\ Len(v_signature) = Len(v_expected.v)
    /\ v_signature[1] # v_expected.v[1]
    /\ v_steps = Len(v_signature)
    /\ v_steps > 1
    /\ v_verdict.v = FALSE

(***************************************************************************)
(* Properties of the resource methods, checked under SpecResource.         *)
(***************************************************************************)
\* An E.164 number: '+', a digit 1-9, then 1 to 14 digits 0-9.
IsE164(phone) ==
    /\ Len(phone) \in 3..16
    /\ phone[1] = 43
    /\ phone[2] \in 49..57
    /\ \A i \in 3..Len(phone) : phone[i] \in 48..57

\* A text that is empty or longer than 1600 characters.
BadText(text) == text = <<>> \/ Len(text) > MAX_TEXT_LENGTH

\* The call has an argument that the pre-flight checks are there to refuse.
InvalidArguments(call) ==
    LET m == call.method
    IN  /\ m.resource = "messages"
        /\ \/ m.name = "send" /\ (~IsE164(call.to) \/ BadText(call.text))
           \/ m.name = "schedule"
                /\ (~IsE164(call.to) \/ BadText(call.text) \/ call.scheduled_at = <<>>)
           \/ m.name \in {"send_batch", "preview_batch"}
                /\ \/ call.messages = <<>>
                   \/ \E i \in 1..Len(call.messages) :
                         ~IsE164(call.messages[i].to) \/ BadText(call.messages[i].text)
           \/ m.name \in {"get", "get_scheduled", "cancel_scheduled", "get_batch"}
                /\ call.ids[1] = <<>>

\* The request executor has not been entered: nothing sent, nothing slept.
NoNetwork ==
    /\ m_request = None
    /\ pc = "idle"
    /\ requests_sent = 0
    /\ slept = Zero
    /\ log = <<>>

\* C16: pre-flight validation precedes the network.  A call of send,
\* schedule, send_batch or preview_batch with an invalid phone number, an
\* empty or over-long text, an empty scheduled_at or an empty message list,
\* or of get, get_scheduled, cancel_scheduled or get_batch with an empty ID,
\* returns Error::Validation, and no HTTP request is sent and no backoff
\* sleep happens for it.
C16_ValidationBeforeNetwork ==
    (m_call.some /\ InvalidArguments(m_call.v)) =>
        /\ NoNetwork
        /\ m_pc \in {"called", "returned"}
        /\ m_pc = "returned" =>
              /\ ~m_result.v.ok
              /\ m_result.v.err.kind = "Validation"

\* The URL parser behind self.client.get(&url): the path ends at the first
\* '?' or '#'.
RECURSIVE PathPart(_)
PathPart(s) ==
    IF s = <<>> \/ Head(s) \in {63, 35} THEN <<>>
    ELSE <<Head(s)>> \o PathPart(Tail(s))

\* The segments of a path that begins with '/': segs are those closed so
\* far, cur the one being read.
RECURSIVE SplitPath(_, _, _)
SplitPath(s, segs, cur) ==
    IF s = <<>> THEN Append(segs, cur)
    ELSE IF Head(s) = 47 THEN SplitPath(Tail(s), Append(segs, cur), <<>>)
    ELSE SplitPath(Tail(s), segs, Append(cur, Head(s)))

\* Dot segments are resolved: "." is dropped, ".." takes the segment before
\* it away.
RECURSIVE RemoveDots(_, _)
RemoveDots(segs, out) ==
    IF segs = <<>> THEN out
    ELSE IF Head(segs) = <<46>> THEN RemoveDots(Tail(segs), out)
    ELSE IF Head(segs) = <<46, 46>>
    THEN RemoveDots(Tail(segs),
                    IF out = <<>> THEN <<>> ELSE SubSeq(out, 1, Len(out) - 1))
    ELSE RemoveDots(Tail(segs), Append(out, Head(segs)))

\* The segments the server routes on for a path handed to the executor.
RoutedSegments(path) ==
    RemoveDots(SplitPath(Tail(PathPart(path)), <<>>, <<>>), <<>>)

\* The request addresses the route of its method: as many segments as the
\* route has, the literal ones in their places.
AddressesRoute(path, route) ==
    LET segs == RoutedSegments(path)
    IN  /\ path # <<>>
        /\ Head(path) = 47
        /\ Len(segs) = Len(route)
        /\ \A i \in 1..Len(route) : route[i].slot = 0 => segs[i] = route[i].text

\* C17: every resource method that embeds a caller-supplied identifier in
\* the request path URL-encodes it before the path reaches the request
\* executor, so that an identifier containing '/', '?', '#' or '..' cannot
\* change which route the request addresses.
C17_IdentifiersEncoded ==
    (m_request.some /\ m_call.v.method \in IdMethods) =>
        /\ m_request.v.path =
              FormatPath(m_call.v.method.route, TRUE, m_call.v.ids)
        /\ AddressesRoute(m_request.v.path, m_call.v.method.route)

(***************************************************************************)
(* Properties of Messages::iter, checked under SpecIter.                   *)
(***************************************************************************)
\* The page size and the first offset of a stream, read from the options it
\* was called with.
PageSize == IF i_options.limit.some THEN i_options.limit.v ELSE 100
StartOffset == IF i_options.offset.some THEN i_options.offset.v ELSE 0

AsItems(page) == [k \in 1..Len(page) |-> Ok(page[k])]

\* The items that the first n calls of Messages::list give rise to.
RECURSIVE ItemsOf(_, _)
ItemsOf(results, n) ==
    IF n = 0 THEN <<>>
    ELSE ItemsOf(results, n - 1) \o
         (IF results[n].ok THEN AsItems(results[n].value) ELSE <<results[n]>>)

YieldedInServerOrder ==
    i_items \o AsItems(i_page) = ItemsOf(i_results, Len(i_results))

RequestedAfterPreviousPage ==
    \A k \in 1..Len(i_requests) :
        i_requests[k].yielded = Len(ItemsOf(i_results, k - 1))

OffsetGrowsByPageSize ==
    \A k \in 1..Len(i_requests) :
        i_requests[k].opts.offset = Some(StartOffset + (k - 1) * PageSize)

StopsAfterShortPage ==
    \A k \in 1..Len(i_results) :
        (i_results[k].ok /\ Len(i_results[k].value) < PageSize) =>
            Len(i_requests) = k

SendsCapturedOptions ==
    \A k \in 1..Len(i_requests) :
        /\ i_requests[k].opts.limit = Some(PageSize)
        /\ i_requests[k].opts.status = i_options.status
        /\ i_requests[k].opts.to = i_options.to

\* C18: Messages::iter yields the messages of page 0, then page 1, ... in
\* server order; it requests a page only after every item of the previous
\* page has been yielded; the offset grows by exactly the page size per page;
\* it stops, without a further request, after the first page shorter than
\* the page size; and the filters and the page size sent with every page are
\* the ones captured when iter was called.
C18_PagesInOrder ==
    /\ YieldedInServerOrder
    /\ RequestedAfterPreviousPage
    /\ OffsetGrowsByPageSize
    /\ StopsAfterShortPage
    /\ SendsCapturedOptions

FailedAt(k) == k \in 1..Len(i_results) /\ ~i_results[k].ok

\* C19: when a page request of Messages::iter fails, on the first page or on
\* a later one, the stream yields exactly one Err carrying that request's
\* error as its next item and then ends: no further page is requested, no
\* further item is yielded, and the items of the earlier pages stay.
C19_ErrorEndsStream ==
    \A k \in 1..Len(i_results) :
        FailedAt(k) =>
            /\ k = Len(i_results)
            /\ Len(i_requests) = k
            /\ i_pc = "ended"
            /\ i_items = ItemsOf(i_results, k - 1) \o <<Err(i_results[k].err)>>
            /\ \A j \in 1..(Len(i_items) - 1) : i_items[j].ok

C19_Witness ==
    /\ FailedAt(2)
    /\ Len(i_items) >= 2
    /\ i_items[1].ok
    /\ ~i_items[Len(i_items)].ok
    /\ i_pc = "ended"

(***************************************************************************)
(* Properties of cancellation, checked under SpecCancel.                   *)
(***************************************************************************)
\* The requests a log shows as sent.
SendsIn(events) == SelectSeq(events, LAMBDA ev : ev.ev = "send")

\* C20: if a call is cancelled (its future dropped) while it is suspended in
\* a backoff sleep or in an attempt's network wait, no further attempt is
\* sent afterwards: the requests sent for the call are exactly those sent at
\* the moment of cancellation, and the cancellation changes no client state.
C20_CancelStopsAttempts ==
    cancelled.some =>
        /\ requests_sent = cancelled.v.requests_sent
        /\ SendsIn(log) = SendsIn(cancelled.v.log)
        /\ Len(SendsIn(log)) = requests_sent
        /\ api_key = cancelled.v.api_key
        /\ config = cancelled.v.config
        /\ result = None

C20_Witness ==
    /\ cancelled.some
    /\ cancelled.v.at = "sleeping"
    /\ requests_sent >= 1
    /\ cancelled.v.attempt <= config.max_retries

(***************************************************************************)
(* Properties of concurrent calls, checked under SpecConcurrent.           *)
(***************************************************************************)
\* What a call holds after its first n answers when it runs alone: the loop
\* of request_with_retry applied to these answers and nothing else.
RECURSIVE Alone(_, _, _)
Alone(answers, n, max_retries) ==
    IF n = 0 THEN [attempt |-> 0, last_error |-> None, result |-> None]
    ELSE LET before == Alone(answers, n - 1, max_retries)
             m == MatchOutcome(answers[n], before.last_error)
         IN  IF m.returns
             THEN [attempt |-> before.attempt, last_error |-> m.last_error,
                   result |-> Some(m.value)]
             ELSE IF before.attempt < max_retries
             THEN [attempt |-> before.attempt + 1, last_error |-> m.last_error,
                   result |-> None]
             ELSE [attempt |-> before.attempt, last_error |-> m.last_error,
                   result |-> Some(AfterLoop(m.last_error))]

\* The sleeps that go with `attempt` attempts begun: 1, 2, 4, .. seconds.
SleepsOf(begun) == [k \in 1..begun |-> {k - 1}]

\* C21: concurrent calls through one client are independent under every
\* interleaving: each has its own attempt counter and last error, so its
\* attempts, sleeps and result depend only on its own transport outcomes,
\* and no call modifies the client's api_key or config.
C21_CallsIndependent ==
    /\ t_client = Some([api_key |-> api_key, config |-> config])
    /\ \A c \in Callers :
          LET a == Alone(t_answers[c], Len(t_answers[c]), config.max_retries)
              pending == IF t_pc[c] = "iter" /\ a.attempt > 0 THEN 1 ELSE 0
          IN  /\ t_attempt[c] = a.attempt
              /\ t_last_error[c] = a.last_error
              /\ t_result[c] = a.result
              /\ t_sent[c] = Len(t_answers[c]) + (IF t_pc[c] = "waiting" THEN 1 ELSE 0)
              /\ t_sleeps[c] = SleepsOf(a.attempt - pending)
              /\ (t_pc[c] = "done") = a.result.some

C21_Witness ==
    /\ t_pc[1] = "done"
    /\ Len(t_answers[1]) = 3
    /\ t_result[1] = Some(Err(Timeout))
    /\ t_pc[2] = "sleeping"
    /\ Len(t_answers[2]) = 1
    /\ t_sent[1] = 3
    /\ t_sent[2] = 1

(***************************************************************************)
(* Properties of the pre-flight checks, checked under SpecResource.        *)
(***************************************************************************)
IsMessagesCall(name) ==
    /\ m_call.some
    /\ m_call.v.method.resource = "messages"
    /\ m_call.v.method.name = name

\* The method returned Error::Validation from its own checks.
PreflightRejected ==
    /\ m_pc = "returned"
    /\ m_request = None
    /\ ~m_result.v.ok
    /\ m_result.v.err.kind = "Validation"

\* C22: message text is accepted by the pre-flight check iff it is non-empty
\* and at most 1600 characters long, whatever characters it contains; every
\* other text is rejected with Error::Validation.
C22_TextLengthInCharacters ==
    (IsMessagesCall("send") /\ IsE164(m_call.v.to) /\ m_pc # "called") =>
        (PreflightRejected <=> BadText(m_call.v.text))

\* The message the pre-flight check of a batch is to fail with, if any: the
\* empty list, else the first invalid item, its phone before its text.
InvalidItems(messages) ==
    {i \in 1..Len(messages) : ~IsE164(messages[i].to) \/ BadText(messages[i].text)}

FirstInvalid(messages) ==
    CHOOSE i \in InvalidItems(messages) : \A j \in InvalidItems(messages) : i <= j

ExpectedBatchError(messages) ==
    IF messages = <<>> THEN Some("Messages array is required")
    ELSE IF InvalidItems(messages) = {} THEN None
    ELSE LET i == FirstInvalid(messages)
         IN  IF ~IsE164(messages[i].to)
             THEN Some(<<"Invalid phone number at index", i - 1>>)
             ELSE Some(<<"Invalid message text at index", i - 1>>)

\* The message of the model's error, read back as its text and its index.
ReadBatchError(text) ==
    IF \E i \in 1..Len(InvalidPhoneAtIndex) : InvalidPhoneAtIndex[i] = text
    THEN <<"Invalid phone number at index",
           (CHOOSE i \in 1..Len(InvalidPhoneAtIndex) : InvalidPhoneAtIndex[i] = text) - 1>>
    ELSE IF \E i \in 1..Len(InvalidTextAtIndex) : InvalidTextAtIndex[i] = text
    THEN <<"Invalid message text at index",
           (CHOOSE i \in 1..Len(InvalidTextAtIndex) : InvalidTextAtIndex[i] = text) - 1>>
    ELSE text

\* C24: send_batch and preview_batch validate the whole list before sending
\* anything: an empty list fails with "Messages array is required";
\* otherwise the error names the smallest index whose item is invalid, the
\* phone when that item's phone is invalid, the text otherwise; the request
\* is sent only when every item is valid.
C24_BatchValidatedFirst ==
    ((IsMessagesCall("send_batch") \/ IsMessagesCall("preview_batch")) /\ m_pc # "called") =>
        LET expected == ExpectedBatchError(m_call.v.messages)
        IN  IF expected.some
            THEN /\ PreflightRejected
                 /\ ReadBatchError(m_result.v.err.message) = expected.v
                 /\ NoNetwork
            ELSE ~PreflightRejected

\* C25: validate_phone accepts exactly the E.164 strings: '+', one digit
\* 1-9, then 1 to 14 digits 0-9, ASCII digits only, nothing before or after;
\* every other string is rejected with Error::Validation.
C25_ExactlyE164 ==
    (IsMessagesCall("send") /\ ~BadText(m_call.v.text) /\ StrLen(m_call.v.text) <= MAX_TEXT_LENGTH
        /\ m_pc # "called") =>
        (PreflightRejected <=> ~IsE164(m_call.v.to))

(***************************************************************************)
(* Properties of the list options, checked under SpecList.                 *)
(***************************************************************************)
\* The number that a string of decimal digits stands for.
RECURSIVE DecimalOf(_)
DecimalOf(s) ==
    IF s = <<>> THEN 0
    ELSE 10 * DecimalOf(SubSeq(s, 1, Len(s) - 1)) + DigitVal(s[Len(s)])

\* The values of the `limit` parameter in a query.
LimitsSent(query) ==
    {DecimalOf(query[i][2]) : i \in {j \in 1..Len(query) : query[j][1] = "limit"}}

BuilderStoresMin ==
    l_how = "builder" =>
        l_options.limit = Some(IF l_asked < 100 THEN l_asked ELSE 100)

\* C23: for every list-options value that can be passed to a list operation,
\* the limit query parameter sent to the server is at most 100; the limit()
\* builder stores min(n, 100) for every n.
C23_LimitAtMost100 ==
    /\ BuilderStoresMin
    /\ l_pc = "sent" => \A n \in LimitsSent(l_query) : n <= 100

(***************************************************************************)
(* Termination and the backoff arithmetic of request_with_retry, checked   *)
(* under SpecLive and Spec.                                                *)
(***************************************************************************)
SentWithinBound == requests_sent <= config.max_retries + 1

ReturnedWithinBound ==
    pc = "done" =>
        /\ requests_sent >= 1
        /\ SentWithinBound
        /\ config.max_retries = 0 => (requests_sent = 1 /\ slept = Zero)

\* C26: under any transport behaviour in which every attempt eventually
\* returns, the call terminates, having sent at least 1 and at most
\* max_retries + 1 requests (exactly one, with no sleep, when max_retries is
\* 0); the server receives the same request no more often than that.
C26_TerminatesWithinBound ==
    /\ <>(pc = "done")
    /\ [](SentWithinBound /\ ReturnedWithinBound)

\* C27: for every max_retries and every attempt N in 1..=max_retries the
\* backoff delay before attempt N is exactly 2^(N-1) seconds: the 64-bit
\* computation never overflows, wraps or aborts the call.
C27_DelayIsPowerOfTwo ==
    /\ pc # "panicked"
    /\ pc = "sleeping" => delay = {attempt - 1}
    /\ \A i \in 1..Len(log) : log[i].ev = "sleep" => log[i].secs = {log[i].n - 1}

\* The loop ran out of attempts: the last attempt failed with a failure that
\* is retried.
LoopExhausted ==
    /\ pc = "done"
    /\ ~outcome.v.ok
    /\ (outcome.v.error.is_timeout \/ outcome.v.error.is_connect)

\* C30: the fallback Network error "Request failed after retries" is
\* unreachable: the loop body runs at least once for every max_retries, and
\* whenever the loop finishes without returning, last_error is Some(Timeout)
\* or Some(Network) recorded by the final attempt.
C30_FallbackUnreachable ==
    /\ pc = "done" => requests_sent >= 1
    /\ result.some => result.v # Err(Network("Request failed after retries"))
    /\ LoopExhausted =>
          /\ last_error =
                Some(IF outcome.v.error.is_timeout THEN Timeout
                     ELSE Network(outcome.v.error.text))
          /\ result = Some(Err(last_error.v))

C30_Witness ==
    /\ LoopExhausted
    /\ config.max_retries >= 1
    /\ requests_sent = config.max_retries + 1
    /\ prev_error = Some(Timeout)
    /\ result = Some(Err(Network("connection refused")))

(***************************************************************************)
(* Termination and completeness of Messages::iter, checked under SpecIter. *)
(***************************************************************************)
\* C28: for every options value, limit 0 included, and a server that holds
\* finitely many matching messages and returns at most the requested number
\* per page, the stream ends after finitely many page requests: every page
\* request is made at an offset beyond that of the request before it, so
\* the loop never comes back to a request it has made (it would then repeat
\* it without end against a server that answers it alike).
C28_EveryRequestAdvances ==
    \A k \in 2..Len(i_requests) :
        i_requests[k].opts.offset.v > i_requests[k - 1].opts.offset.v

\* Every page so far came back, with all the server had for it.
ServerGaveAll ==
    \A k \in 1..Len(i_results) :
        /\ i_results[k].ok
        /\ Len(i_results[k].value) = Available(i_requests[k].opts, i_total)

\* The messages from the starting offset on, in the server's order.
Remaining ==
    AsItems(PageOf(StartOffset,
                   IF i_total > StartOffset THEN i_total - StartOffset ELSE 0))

\* C29: whatever the limit field was set to, the limit sent in each page
\* request equals the page size of the short-page test and of the offset
\* increment; hence, against a server that returns min(limit, remaining)
\* items per page, the stream yields every matching message from the
\* starting offset exactly once and stops only when none remain.
C29_LimitSentIsPageSize ==
    /\ \A k \in 1..Len(i_requests) : i_requests[k].opts.limit = Some(i_batch_size)
    /\ (i_pc = "ended" /\ ServerGaveAll) => i_items = Remaining

====
